---- MODULE Spec2Model ----
(***************************************************************************)
(* A model of the systemd D-Bus client: the primitive wire codec, the      *)
(* header codec, the message codec and the client with its call gate and   *)
(* serial counter.  Bytes are numbers 0..255, byte strings are sequences   *)
(* of bytes, and a uint32 is kept as its four bytes, least significant     *)
(* first, so that the full 32-bit width is preserved.                      *)
(***************************************************************************)
EXTENDS Integers, Sequences, FiniteSets, TLC

VARIABLES
    \* header codec harness
    hphase,     \* "off" | "init" | "encoded" | "decoded"
    hIn,        \* the header handed to encodeHeader
    raw,        \* a wire image handed to decodeHeader directly
    enc,        \* the encoder after encodeHeader: [dst, offset, err]
    dec,        \* the result of decodeHeader: [h, err, offset, pos, skip, input]
    \* client
    mu,         \* Client.mu is held
    msgSerial,  \* Client.msgSerial
    check,      \* Config.isSerialCheckEnabled
    conn,       \* the bytes the bus has written to the connection and the client has not read
    cdec,       \* Client.msgDec.Dec: [lim, offset, order, buf], lim the bytes its LimitReader leaves (-1: none)
    hdr,        \* Client.msgDec.hdr
    unit,       \* Client.msgDec.unit
    sent,       \* the last request written to the connection: [op, serial, buf]
    pending,    \* the requests the bus has not answered yet: [op, serial]
    call,       \* per caller, the call in progress: [at, op, serial, p, msg, delivered]
    ret,        \* per caller, what its last call returned
    ncalls,     \* the calls of the main caller
    \* history
    msgs,       \* the messages of the bus with bytes in conn: [start, end, kind, replySerial, units, pid]
    lead,       \* nextMsgSerial calls before the first state: 0 (-1), or 2^32 - 1 - lead
    k,          \* nextMsgSerial calls since the first state
    \* construction of a client
    hs,         \* New in progress: [pc, given, addr, uid, log, reply, unread, err]
    \* primitives on their own
    cv,         \* a stringConverter and the strings it has returned
    lab,        \* escapeBusLabel: [in, out]
    rd,         \* readN: [phase, d, n], d the decoder, n the bytes asked for
    md,         \* a messageDecoder on a byte stream: [at, op, skip, d, h, unit, delivered, err, pid, img]
    sg          \* decoder.Signature: [phase, d, n, e, pos0, offset0], d the decoder, n the length of the signature in its source, e the bytes before it

hvars == <<hphase, hIn, raw, enc, dec>>
cvars == <<mu, msgSerial, check, conn, cdec, hdr, unit, sent, pending, call, ret, ncalls, msgs>>
svars == <<lead, k>>
ovars == <<hs, cv, lab, sg, rd, md>>
vars == <<hphase, hIn, raw, enc, dec, mu, msgSerial, check, conn, cdec, hdr, unit, sent,
          pending, call, ret, ncalls, msgs, lead, k, hs, cv, lab, sg, rd, md>>

-----------------------------------------------------------------------------
(* Bounds of the model *)

\* longest header field list drawn for the header codec
MaxFields == 2
\* most units in one reply of the bus
MaxUnits == 2
\* most calls of the main caller
MaxCalls == 2
\* the serial counter starts at most this far below 2^32 - 1
SerialLead == 8
\* most nextMsgSerial calls in a row
MaxSerialCalls == 10
\* largest capacity of a string converter, and most calls of its String
MaxConvCap == 3
MaxConvCalls == 3
\* longest unit name drawn for escapeBusLabel
MaxLabelLen == 3

-----------------------------------------------------------------------------
(* Program constants *)

littleEndian == 108
bigEndian == 66
messagePrologueSize == 16
maxMessageSize == 134217728
u32size == 4

\* bytes.smallBufferSize: the capacity of the first small allocation of a bytes.Buffer
smallBufferSize == 64

\* how many bytes of the scratch buffer's array are kept: a signature takes
\* at most 255 of them
BufWindow == 256
headerFieldsLenOffset == 12
headerBodyLenOffset == 4

typeMethodCall == 1
typeMethodReply == 2
typeError == 3
typeSignal == 4

fieldPath == 1
fieldInterface == 2
fieldMember == 3
fieldErrorName == 4
fieldReplySerial == 5
fieldDestination == 6
fieldSender == 7
fieldSignature == 8
fieldUnixFDs == 9

-----------------------------------------------------------------------------
(* uint32 arithmetic on four bytes, least significant first *)

Min(a, b) == IF a < b THEN a ELSE b

\* the uint32 with value n, for 0 <= n < 2^31
U32(n) == << n % 256, (n \div 256) % 256, (n \div 65536) % 256, (n \div 16777216) % 256 >>

MaxUint32 == << 255, 255, 255, 255 >>

\* The value of a uint32 as a number.  Values of 2^30 and more are reported
\* as 2^30: they are only ever compared with maxMessageSize (2^27) and with
\* the lengths of streams of a few hundred bytes.
Nat32(u) ==
    IF u[4] >= 64 THEN 64 * 16777216
    ELSE u[1] + 256 * u[2] + 65536 * u[3] + 16777216 * u[4]

\* u++ on a uint32 (wraps from 2^32-1 to 0)
U32Inc(u) ==
    IF u[1] < 255 THEN << u[1] + 1, u[2], u[3], u[4] >>
    ELSE IF u[2] < 255 THEN << 0, u[2] + 1, u[3], u[4] >>
    ELSE IF u[3] < 255 THEN << 0, 0, u[3] + 1, u[4] >>
    ELSE IF u[4] < 255 THEN << 0, 0, 0, u[4] + 1 >>
    ELSE << 0, 0, 0, 0 >>

\* u + n on a uint32, 0 <= n < 2^16 (wraps modulo 2^32)
U32AddNat(u, n) ==
    LET lo == u[1] + 256 * u[2] + n
        hi == (u[3] + 256 * u[4] + (lo \div 65536)) % 65536
    IN  << lo % 256, (lo \div 256) % 256, hi % 256, hi \div 256 >>

Reverse4(b) == << b[4], b[3], b[2], b[1] >>

\* binary.ByteOrder.PutUint32 / Uint32 for binary.LittleEndian and binary.BigEndian
PutUint32(order, u) == IF order = "BE" THEN Reverse4(u) ELSE u
Uint32Of(order, b) == IF order = "BE" THEN Reverse4(b) ELSE b

-----------------------------------------------------------------------------
(* Primitive codec: alignment *)

\* nextOffset: (current + align - 1) & ^(align - 1) for align a power of two
nextOffset(current, align) ==
    IF current % align = 0
    THEN [next |-> current, padding |-> 0]
    ELSE LET next == ((current + align - 1) \div align) * align
         IN  [next |-> next, padding |-> next - current]

-----------------------------------------------------------------------------
(* Primitive codec: encoder.  e = [dst, offset, order] *)

newEncoder(dst) == [dst |-> dst, offset |-> 0, order |-> "LE"]

Zeros(n) == [i \in 1..n |-> 0]

EncReset(e, dst) == [e EXCEPT !.dst = dst, !.offset = 0]

EncAlign(e, n) ==
    LET no == nextOffset(e.offset, n)
    IN  IF no.padding = 0 THEN e
        ELSE [e EXCEPT !.dst = @ \o Zeros(no.padding), !.offset = no.next]

EncByte(e, b) == [e EXCEPT !.dst = Append(@, b), !.offset = @ + 1]

EncPut(a, b) == [a EXCEPT !.dst = @ \o b, !.offset = @ + Len(b)]

EncUint32(e, u) == EncPut(EncAlign(e, u32size), PutUint32(e.order, u))

EncString(e, s) == EncPut(EncUint32(e, U32(Len(s))), s \o << 0 >>)

EncSignature(e, s) == EncPut(EncByte(e, Len(s) % 256), s \o << 0 >>)

\* Uint32At overwrites the uint32 emitted at byte position pos
EncUint32At(e, u, pos) ==
    IF Len(e.dst) < pos + 4
    THEN [e |-> e, err |-> "short buffer"]
    ELSE [e |-> [e EXCEPT !.dst = [i \in 1..Len(e.dst) |->
                        IF i > pos /\ i <= pos + 4
                        THEN PutUint32(e.order, u)[i - pos] ELSE e.dst[i]]],
          err |-> ""]

-----------------------------------------------------------------------------
(* Primitive codec: decoder.                                               *)
(* d = [src, pos, lim, sock, cuts, offset, order, buf, err, val]: the      *)
(* bytes of the source, how many of them were consumed, the position at    *)
(* which an io.LimitReader ends (-1 without one), whether the source is a  *)
(* connection (a read at its end waits) or a byte slice (a read at its end *)
(* is io.EOF), the positions at which one Read of the source stops short   *)
(* (what a buffered reader holds, what the connection delivers at a time), *)
(* the alignment offset, the byte order, the backing array of the scratch  *)
(* buffer d.buf (its capacity and its first BufWindow bytes), and the      *)
(* error and value of the last operation.  "block" is a read that never    *)
(* returns and "panic" a run-time panic; neither is an error value a       *)
(* caller can test.                                                        *)

\* the array of the zero bytes.Buffer
NoArray == [cap |-> 0, mem |-> << >>]

newDecoder(src, sock) ==
    [src |-> src, pos |-> 0, lim |-> -1, sock |-> sock, cuts |-> {}, offset |-> 0,
     order |-> "LE", buf |-> NoArray, err |-> "", val |-> << >>]

Abrupt(err) == err \in {"block", "panic"}

\* the position at which one Read of the source that starts at d.pos ends
\* at the latest: the next cut, or the end of the bytes
ReadEnd(d) ==
    IF \E c \in d.cuts : c > d.pos /\ c < Len(d.src)
    THEN CHOOSE c \in d.cuts :
            /\ c > d.pos
            /\ \A c2 \in d.cuts : c2 > d.pos => c <= c2
    ELSE Len(d.src)

\* One Read call for p bytes on the decoder's source.
SrcRead(d, p) ==
    LET avail == ReadEnd(d) - d.pos
        Under(q) ==
            IF d.sock
            THEN IF q = 0 THEN [k |-> 0, err |-> ""]
                 ELSE IF avail = 0 THEN [k |-> 0, err |-> "block"]
                 ELSE [k |-> Min(q, avail), err |-> ""]
            ELSE IF avail = 0 THEN [k |-> 0, err |-> "EOF"]
                 ELSE [k |-> Min(q, avail), err |-> ""]
    IN  IF d.lim < 0 THEN Under(p)
        ELSE IF d.lim - d.pos <= 0 THEN [k |-> 0, err |-> "EOF"]
        ELSE Under(Min(p, d.lim - d.pos))

\* Bind(x, F) is F(x): the value x of one call, named in what follows it
Bind(x, F(_)) == F(x)

\* bytes.Buffer.Grow(n) on the buffer emptied by Reset: the array is kept
\* when n bytes fit, and replaced by a zeroed one otherwise, of 64 bytes for
\* the first small request and of at least n bytes and twice the capacity
\* after that
MakeArray(cap) == [cap |-> cap, mem |-> Zeros(Min(cap, BufWindow))]

Grow(buf, n) ==
    IF n <= buf.cap THEN buf
    ELSE IF buf.cap = 0 /\ n <= smallBufferSize THEN MakeArray(smallBufferSize)
    ELSE IF n < 2 * buf.cap THEN MakeArray(2 * buf.cap)
    ELSE MakeArray(n)

\* the array buf after the n bytes of src that follow pos were read into it
BufRead(buf, src, pos, n) ==
    [buf EXCEPT !.mem = [i \in 1..Len(buf.mem) |-> IF i <= n THEN src[pos + i] ELSE buf.mem[i]]]

\* the slice b = buf.Bytes()[:n] after got bytes of src were read into it:
\* those bytes, and behind them what the array held
Slice(buf, src, pos, got, n) ==
    SubSeq(src, pos + 1, pos + got) \o SubSeq(buf.mem, got + 1, Min(n, Len(buf.mem)))

\* readN: one Read, and a second one when the first came back short.
readN(d, n) ==
    Bind(SrcRead(d, n), LAMBDA r1 :
        IF r1.err # ""
        THEN [d EXCEPT !.pos = @ + r1.k, !.err = r1.err, !.val = << >>,
                       !.buf = BufRead(Grow(@, n), d.src, d.pos, r1.k)]
        ELSE IF r1.k # n
        THEN Bind(SrcRead([d EXCEPT !.pos = @ + r1.k], n - r1.k), LAMBDA r2 :
                [d EXCEPT !.pos = @ + r1.k + r2.k, !.err = r2.err,
                          !.val = Slice(BufRead(Grow(d.buf, n), d.src, d.pos, r1.k + r2.k),
                                        d.src, d.pos, r1.k + r2.k, n),
                          !.buf = BufRead(Grow(@, n), d.src, d.pos, r1.k + r2.k)])
        ELSE [d EXCEPT !.pos = @ + n, !.err = "",
                       !.val = SubSeq(d.src, d.pos + 1, d.pos + n),
                       !.buf = BufRead(Grow(@, n), d.src, d.pos, n)])

DecReset(d, src, lim) == [d EXCEPT !.src = src, !.lim = lim, !.offset = 0]

SetOrder(d, order) == [d EXCEPT !.order = order]

Align(d, n) ==
    LET no == nextOffset(d.offset, n)
    IN  IF no.padding = 0 THEN [d EXCEPT !.err = ""]
        ELSE [readN(d, no.padding) EXCEPT !.offset = no.next]

ReadN(d, n) == readN([d EXCEPT !.offset = @ + n], n)

Byte(d) ==
    Bind(readN(d, 1), LAMBDA r :
        IF r.err # "" THEN [r EXCEPT !.val = 0]
        ELSE [r EXCEPT !.offset = @ + 1, !.val = r.val[1]])

Uint32(d) ==
    Bind(Align(d, u32size), LAMBDA a :
        IF a.err # "" THEN a
        ELSE Bind(readN(a, u32size), LAMBDA r :
                IF r.err # "" THEN r
                ELSE [r EXCEPT !.offset = @ + u32size,
                               !.val = Uint32Of(r.order, r.val)]))

\* the bytes b[:strLen-1] of the strLen bytes read for a string: with
\* strLen = 0 the slice bound 2^32 - 1 is out of range
StrBytes(r, strLen) ==
    IF r.err # "" THEN r
    ELSE IF strLen = 0 THEN [r EXCEPT !.err = "panic"]
    ELSE [r EXCEPT !.offset = @ + strLen, !.val = SubSeq(r.val, 1, strLen - 1)]

String(d) ==
    Bind(Uint32(d), LAMBDA u :
        IF u.err # "" THEN u
        ELSE LET strLen == IF u.val = MaxUint32 THEN 0 ELSE Nat32(u.val) + 1
             IN  StrBytes(readN(u, strLen), strLen))

\* the bytes b[:strLen-1] of the strLen bytes read for a signature, strLen a
\* byte: with strLen = 0 the slice bound is 255, within the capacity of the
\* buffer or not
SigBytes(r, strLen) ==
    IF r.err # "" THEN r
    ELSE IF (strLen + 255) % 256 > r.buf.cap THEN [r EXCEPT !.err = "panic"]
    ELSE [r EXCEPT !.offset = @ + strLen,
                   !.val = SubSeq(r.buf.mem, 1, (strLen + 255) % 256)]

Signature(d) ==
    Bind(Byte(d), LAMBDA l :
        IF l.err # "" THEN l
        ELSE LET strLen == (l.val + 1) % 256
             IN  SigBytes(readN(l, strLen), strLen))

\* stringConverter.String returns a string with the bytes of b
ConvString(b) == [i \in 1..Len(b) |-> b[i]]

-----------------------------------------------------------------------------
(* Header codec *)

\* header.Order
Order(byteOrder) ==
    IF byteOrder = littleEndian THEN "LE"
    ELSE IF byteOrder = bigEndian THEN "BE"
    ELSE "nil"

\* header.Len
HeaderLen(h) ==
    LET wantHdrLen == messagePrologueSize + Nat32(h.FieldsLen)
    IN  wantHdrLen + nextOffset(wantHdrLen, 8).padding

ZeroField == [Signature |-> << >>, U |-> U32(0), S |-> << >>, Code |-> 0]

ZeroHeader ==
    [ByteOrder |-> 0, Type |-> 0, Flags |-> 0, Proto |-> 0, BodyLen |-> U32(0),
     Serial |-> U32(0), FieldsLen |-> U32(0), Fields |-> << >>]

\* the value of a header field after its signature g was decoded into f
decodeFieldValue(g, f) ==
    IF Len(g.val) # 1
    THEN [d |-> g, f |-> [f EXCEPT !.Signature = << >>],
          err |-> "container type is not supported"]
    ELSE IF g.val[1] = 117                                   \* 'u'
    THEN Bind(Uint32(g), LAMBDA u :
            [d |-> u, f |-> IF u.err # "" THEN f ELSE [f EXCEPT !.U = u.val], err |-> u.err])
    ELSE IF g.val[1] \in {115, 111}                          \* 's', 'o'
    THEN Bind(String(g), LAMBDA s :
            [d |-> s, f |-> IF s.err # "" THEN f ELSE [f EXCEPT !.S = ConvString(s.val)],
             err |-> s.err])
    ELSE IF g.val[1] = 103                                   \* 'g'
    THEN Bind(Signature(g), LAMBDA s :
            [d |-> s, f |-> IF s.err # "" THEN f ELSE [f EXCEPT !.S = ConvString(s.val)],
             err |-> s.err])
    ELSE [d |-> g, f |-> f, err |-> "unknown type"]

\* decodeHeaderField: [d, f, err]
decodeHeaderField(d) ==
    Bind(Align(d, 8), LAMBDA a :
        IF a.err # "" THEN [d |-> a, f |-> ZeroField, err |-> a.err]
        ELSE Bind(Byte(a), LAMBDA c :
            IF c.err # "" THEN [d |-> c, f |-> ZeroField, err |-> c.err]
            ELSE Bind(Signature(c), LAMBDA g :
                IF g.err # ""
                THEN [d |-> g, f |-> [ZeroField EXCEPT !.Code = c.val], err |-> g.err]
                ELSE decodeFieldValue(g, [ZeroField EXCEPT !.Code = c.val,
                                                           !.Signature = ConvString(g.val)]))))

\* The loop of decodeHeader over the header fields: a field that fails to
\* decode ends the loop (break), and only a read that never returns or a
\* panic leaves the function there.
RECURSIVE decodeFields(_, _, _)
decodeFields(d, fs, hdrArrEnd) ==
    IF ~(d.offset < hdrArrEnd) THEN [d |-> d, fs |-> fs, err |-> ""]
    ELSE Bind(decodeHeaderField(d), LAMBDA r :
            IF r.err # ""
            THEN [d |-> r.d, fs |-> fs, err |-> r.err]
            ELSE decodeFields(r.d, Append(fs, r.f), hdrArrEnd))

\* the prologue values of the 16 bytes b
PrologueOf(h, b) ==
    [h EXCEPT !.ByteOrder = b[1], !.Type = b[2], !.Flags = b[3], !.Proto = b[4],
              !.BodyLen = Uint32Of(Order(b[1]), SubSeq(b, 5, 8)),
              !.Serial = Uint32Of(Order(b[1]), SubSeq(b, 9, 12)),
              !.FieldsLen = Uint32Of(Order(b[1]), SubSeq(b, 13, 16))]

\* decodeHeader after the prologue that leaves the padding after the fields
\* unread
decodeHeaderFieldsNoAlign(d1, h1, skipFields) ==
    IF skipFields
    THEN Bind(ReadN(d1, Nat32(h1.FieldsLen)), LAMBDA s : [d |-> s, h |-> h1, err |-> s.err])
    ELSE Bind(decodeFields(d1, << >>, Nat32(U32AddNat(h1.FieldsLen, d1.offset))), LAMBDA l :
            [d |-> l.d, h |-> [h1 EXCEPT !.Fields = l.fs],
             err |-> IF Abrupt(l.err) THEN l.err ELSE ""])

\* decodeHeader after the prologue: d1 the decoder, h1 the header so far
decodeHeaderFields(d1, h1, skipFields) ==
    IF skipFields
    THEN Bind(ReadN(d1, Nat32(h1.FieldsLen)), LAMBDA s :
            IF s.err # "" THEN [d |-> s, h |-> h1, err |-> s.err]
            ELSE Bind(Align(s, 8), LAMBDA a : [d |-> a, h |-> h1, err |-> a.err]))
    ELSE Bind(decodeFields(d1, << >>, Nat32(U32AddNat(h1.FieldsLen, d1.offset))), LAMBDA l :
            IF Abrupt(l.err)
            THEN [d |-> l.d, h |-> [h1 EXCEPT !.Fields = l.fs], err |-> l.err]
            \* err of the loop is overwritten by the result of Align
            ELSE Bind(Align(l.d, 8), LAMBDA a :
                    [d |-> a, h |-> [h1 EXCEPT !.Fields = l.fs], err |-> a.err]))

\* decodeHeader rejecting a body-len equal to the limit as well
decodeHeaderAtLimit(dec0, h, skipFields) ==
    Bind(ReadN(dec0, messagePrologueSize), LAMBDA r0 :
        IF r0.err # "" THEN [d |-> r0, h |-> h, err |-> r0.err]
        ELSE IF Order(r0.val[1]) = "nil"
        THEN [d |-> SetOrder(r0, "nil"),
              h |-> [h EXCEPT !.ByteOrder = r0.val[1], !.Type = r0.val[2],
                              !.Flags = r0.val[3], !.Proto = r0.val[4]],
              err |-> "panic"]
        ELSE IF Nat32(PrologueOf(h, r0.val).BodyLen) >= maxMessageSize
        THEN [d |-> SetOrder(r0, Order(r0.val[1])), h |-> PrologueOf(h, r0.val),
              err |-> "message exceeded the maximum length"]
        ELSE decodeHeaderFields(SetOrder(r0, Order(r0.val[1])),
                                [PrologueOf(h, r0.val) EXCEPT !.Fields = << >>], skipFields))

\* decodeHeader: [d, h, err]
decodeHeader(dec0, h, skipFields) ==
    Bind(ReadN(dec0, messagePrologueSize), LAMBDA r0 :
        IF r0.err # "" THEN [d |-> r0, h |-> h, err |-> r0.err]
        \* order.Uint32 on the nil byte order
        ELSE IF Order(r0.val[1]) = "nil"
        THEN [d |-> SetOrder(r0, "nil"),
              h |-> [h EXCEPT !.ByteOrder = r0.val[1], !.Type = r0.val[2],
                              !.Flags = r0.val[3], !.Proto = r0.val[4]],
              err |-> "panic"]
        ELSE IF Nat32(PrologueOf(h, r0.val).BodyLen) > maxMessageSize
        THEN [d |-> SetOrder(r0, Order(r0.val[1])), h |-> PrologueOf(h, r0.val),
              err |-> "message exceeded the maximum length"]
        ELSE decodeHeaderFields(SetOrder(r0, Order(r0.val[1])),
                                [PrologueOf(h, r0.val) EXCEPT !.Fields = << >>], skipFields))

\* encodeHeaderField: [e, err]
encodeHeaderField(e, f) ==
    IF Len(f.Signature) # 1
    THEN [e |-> e, err |-> "container type is not supported"]
    ELSE Bind(EncSignature(EncByte(EncAlign(e, 8), f.Code), f.Signature), LAMBDA a :
            IF f.Signature[1] = 117 THEN [e |-> EncUint32(a, f.U), err |-> ""]
            ELSE IF f.Signature[1] \in {115, 111} THEN [e |-> EncString(a, f.S), err |-> ""]
            ELSE IF f.Signature[1] = 103 THEN [e |-> EncSignature(a, f.S), err |-> ""]
            ELSE [e |-> a, err |-> "unknown type"])

RECURSIVE encodeFields(_, _, _)
encodeFields(e, fs, i) ==
    IF i > Len(fs) THEN [e |-> e, err |-> ""]
    ELSE Bind(encodeHeaderField(e, fs[i]), LAMBDA r :
            IF r.err # "" THEN r ELSE encodeFields(r.e, fs, i + 1))

\* encodeHeader: [e, err]
encodeHeader(e0, h) ==
    IF Nat32(h.BodyLen) > maxMessageSize
    THEN [e |-> e0, err |-> "message exceeded the maximum length"]
    ELSE Bind(EncUint32(EncUint32(EncUint32(
                  EncByte(EncByte(EncByte(EncByte(e0, h.ByteOrder), h.Type), h.Flags), h.Proto),
                  h.BodyLen), h.Serial), h.FieldsLen), LAMBDA p :
            Bind(encodeFields(p, h.Fields, 1), LAMBDA l :
                IF l.err # "" THEN l
                ELSE Bind(EncUint32At(l.e, U32(l.e.offset - p.offset), headerFieldsLenOffset),
                          LAMBDA w :
                        IF w.err # "" THEN w
                        ELSE [e |-> EncAlign(w.e, 8), err |-> ""])))

-----------------------------------------------------------------------------
(* Message codec *)

\* the strings of the two requests
sListUnits == << 76, 105, 115, 116, 85, 110, 105, 116, 115 >>
sManager == << 111, 114, 103, 46, 102, 114, 101, 101, 100, 101, 115, 107, 116, 111, 112, 46, 115, 121, 115, 116, 101, 109, 100, 49, 46, 77, 97, 110, 97, 103, 101, 114 >>
sSystemdPath == << 47, 111, 114, 103, 47, 102, 114, 101, 101, 100, 101, 115, 107, 116, 111, 112, 47, 115, 121, 115, 116, 101, 109, 100, 49 >>
sSystemd == << 111, 114, 103, 46, 102, 114, 101, 101, 100, 101, 115, 107, 116, 111, 112, 46, 115, 121, 115, 116, 101, 109, 100, 49 >>
sGet == << 71, 101, 116 >>
sProperties == << 111, 114, 103, 46, 102, 114, 101, 101, 100, 101, 115, 107, 116, 111, 112, 46, 68, 66, 117, 115, 46, 80, 114, 111, 112, 101, 114, 116, 105, 101, 115 >>
sService == << 111, 114, 103, 46, 102, 114, 101, 101, 100, 101, 115, 107, 116, 111, 112, 46, 115, 121, 115, 116, 101, 109, 100, 49, 46, 83, 101, 114, 118, 105, 99, 101 >>
sMainPID == << 77, 97, 105, 110, 80, 73, 68 >>
sUnitPathPrefix == << 47, 111, 114, 103, 47, 102, 114, 101, 101, 100, 101, 115, 107, 116, 111, 112, 47, 115, 121, 115, 116, 101, 109, 100, 49, 47, 117, 110, 105, 116, 47 >>

\* the fields of Unit in the order of the struct
UnitFields ==
    << "Name", "Description", "LoadState", "ActiveState", "SubState", "Followed",
       "Path", "JobID", "JobType", "JobPath" >>

ZeroUnit ==
    [Name |-> << >>, Description |-> << >>, LoadState |-> << >>, ActiveState |-> << >>,
     SubState |-> << >>, Followed |-> << >>, Path |-> << >>, JobID |-> U32(0),
     JobType |-> << >>, JobPath |-> << >>]

\* decodeUnit from field i on: [d, unit, err]
RECURSIVE decodeUnitFields(_, _, _)
decodeUnitFields(d, un, i) ==
    IF i > Len(UnitFields) THEN [d |-> d, unit |-> un, err |-> ""]
    ELSE IF UnitFields[i] = "JobID"
    THEN Bind(Uint32(d), LAMBDA u :
            IF u.err # "" THEN [d |-> u, unit |-> un, err |-> u.err]
            ELSE decodeUnitFields(u, [un EXCEPT !.JobID = u.val], i + 1))
    ELSE Bind(String(d), LAMBDA x :
            IF x.err # "" THEN [d |-> x, unit |-> un, err |-> x.err]
            ELSE decodeUnitFields(x, [un EXCEPT ![UnitFields[i]] = ConvString(x.val)], i + 1))

\* decodeUnit: [d, unit, err]
decodeUnit(d, un) ==
    Bind(Align(d, 8), LAMBDA a :
        IF a.err # "" THEN [d |-> a, unit |-> un, err |-> a.err]
        ELSE decodeUnitFields(a, un, 1))

\* io.LimitReader(conn, bodyLen) and d.Dec.Reset(body)
\* the wrap with the offset carried over from the header
LimitBodyKeepOffset(d, bodyLen) == [d EXCEPT !.lim = d.pos + Nat32(bodyLen)]

LimitBody(d, bodyLen) == DecReset(d, d.src, d.pos + Nat32(bodyLen))

\* DecodeListUnits up to its loop: the header, the limit on the body and
\* the length of the array.  [d, h, err]
DecodeListUnitsHead(d0, h, skipHeaderFields) ==
    Bind(decodeHeader(DecReset(d0, d0.src, -1), h, skipHeaderFields), LAMBDA r :
        IF r.err # "" THEN r
        ELSE Bind(Uint32(LimitBody(r.d, r.h.BodyLen)), LAMBDA u :
                [d |-> u, h |-> r.h, err |-> u.err]))

\* DecodeMainPID: [d, h, pid, err]
DecodeMainPID(d0, h, skipHeaderFields) ==
    Bind(decodeHeader(DecReset(d0, d0.src, -1), h, skipHeaderFields), LAMBDA r :
        IF r.err # "" THEN [d |-> r.d, h |-> r.h, pid |-> U32(0), err |-> r.err]
        ELSE Bind(Signature(LimitBody(r.d, r.h.BodyLen)), LAMBDA g :
                IF g.err # "" THEN [d |-> g, h |-> r.h, pid |-> U32(0), err |-> g.err]
                ELSE Bind(Uint32(g), LAMBDA u :
                        [d |-> u, h |-> r.h,
                         pid |-> IF u.err # "" THEN U32(0) ELSE u.val, err |-> u.err])))

\* the header of a request with the given serial and fields
RequestHeader(serial, fields) ==
    [ByteOrder |-> littleEndian, Type |-> typeMethodCall, Flags |-> 0, Proto |-> 1,
     BodyLen |-> U32(0), Serial |-> serial, FieldsLen |-> U32(0), Fields |-> fields]

\* EncodeListUnits: [buf, err], buf the bytes handed to conn.Write
EncodeListUnits(serial) ==
    Bind(encodeHeader(EncReset(newEncoder(<< >>), << >>),
            RequestHeader(serial,
                << [ZeroField EXCEPT !.Signature = << 115 >>, !.S = sListUnits, !.Code = fieldMember],
                   [ZeroField EXCEPT !.Signature = << 115 >>, !.S = sManager, !.Code = fieldInterface],
                   [ZeroField EXCEPT !.Signature = << 111 >>, !.S = sSystemdPath, !.Code = fieldPath],
                   [ZeroField EXCEPT !.Signature = << 115 >>, !.S = sSystemd, !.Code = fieldDestination] >>)),
         LAMBDA r : [buf |-> r.e.dst, err |-> r.err])

\* escapeBusLabel: the unit name as a label of an object path
HexDigit(n) == IF n < 10 THEN 48 + n ELSE 87 + n
IsAlnum(b) == (b >= 48 /\ b <= 57) \/ (b >= 65 /\ b <= 90) \/ (b >= 97 /\ b <= 122)
IsDigit(b) == b >= 48 /\ b <= 57
\* escapeBusLabel copying an underscore as it is
RECURSIVE escapeKeepUnderscore(_, _)
escapeKeepUnderscore(s, i) ==
    IF i > Len(s) THEN << >>
    ELSE (IF (IsAlnum(s[i]) \/ s[i] = 95) /\ ~(i = 1 /\ IsDigit(s[i])) THEN << s[i] >>
          ELSE << 95, HexDigit(s[i] \div 16), HexDigit(s[i] % 16) >>)
         \o escapeKeepUnderscore(s, i + 1)
RECURSIVE escapeFrom(_, _)
escapeFrom(s, i) ==
    IF i > Len(s) THEN << >>
    ELSE (IF IsAlnum(s[i]) /\ ~(i = 1 /\ IsDigit(s[i])) THEN << s[i] >>
          ELSE << 95, HexDigit(s[i] \div 16), HexDigit(s[i] % 16) >>) \o escapeFrom(s, i + 1)
escapeBusLabel(s) == IF Len(s) = 0 THEN << 95 >> ELSE escapeFrom(s, 1)

\* EncodeMainPID: [buf, err]
EncodeMainPID(unitName, serial) ==
    Bind(encodeHeader(EncReset(newEncoder(<< >>), << >>),
            RequestHeader(serial,
                << [ZeroField EXCEPT !.Signature = << 111 >>,
                                     !.S = ConvString(sUnitPathPrefix \o escapeBusLabel(unitName)),
                                     !.Code = fieldPath],
                   [ZeroField EXCEPT !.Signature = << 115 >>, !.S = sSystemd, !.Code = fieldDestination],
                   [ZeroField EXCEPT !.Signature = << 115 >>, !.S = sGet, !.Code = fieldMember],
                   [ZeroField EXCEPT !.Signature = << 115 >>, !.S = sProperties, !.Code = fieldInterface],
                   [ZeroField EXCEPT !.Signature = << 103 >>, !.S = << 115, 115 >>, !.Code = fieldSignature] >>)),
         LAMBDA r :
            IF r.err # "" THEN [buf |-> r.e.dst, err |-> r.err]
            ELSE Bind(EncString(EncString(r.e, sService), sMainPID), LAMBDA b :
                    Bind(EncUint32At(b, U32(b.offset - r.e.offset), headerBodyLenOffset), LAMBDA w :
                        [buf |-> w.e.dst, err |-> w.err])))

-----------------------------------------------------------------------------
(* The message bus: the messages a client receives, in the wire format of  *)
(* a little-endian peer                                                    *)

sUniqueName == << 58, 49, 46, 53 >>
sBusPath == << 47, 111, 114, 103, 47, 102, 114, 101, 101, 100, 101, 115, 107, 116, 111, 112, 47, 68, 66, 117, 115 >>
sBusName == << 111, 114, 103, 46, 102, 114, 101, 101, 100, 101, 115, 107, 116, 111, 112, 46, 68, 66, 117, 115 >>
sNameAcquired == << 78, 97, 109, 101, 65, 99, 113, 117, 105, 114, 101, 100 >>
sUnitsSignature == << 97, 40, 115, 115, 115, 115, 115, 115, 111, 117, 115, 111, 41 >>
sErrorName == << 69, 46, 120 >>
sErrorText == << 110, 111 >>
sServiceSuffix == << 46, 115, 101, 114, 118, 105, 99, 101 >>

\* a message of the bus: the header with its fields, then the body
BusMessage(type, serial, fields, body) ==
    encodeHeader(newEncoder(<< >>),
        [ByteOrder |-> littleEndian, Type |-> type, Flags |-> 1, Proto |-> 1,
         BodyLen |-> U32(Len(body)), Serial |-> serial, FieldsLen |-> U32(0),
         Fields |-> fields]).e.dst \o body

FieldOf(code, sig, str, u) == [Signature |-> << sig >>, U |-> u, S |-> str, Code |-> code]

\* the header fields of a reply to the request with serial replySerial
ReplyFields(replySerial, bodySig) ==
    << FieldOf(fieldDestination, 115, sUniqueName, U32(0)),
       FieldOf(fieldReplySerial, 117, << >>, replySerial),
       FieldOf(fieldSignature, 103, bodySig, U32(0)) >>

RECURSIVE EncUnitFields(_, _, _)
EncUnitFields(e, u, i) ==
    IF i > Len(UnitFields) THEN e
    ELSE EncUnitFields(IF UnitFields[i] = "JobID" THEN EncUint32(e, u.JobID)
                       ELSE EncString(e, u[UnitFields[i]]), u, i + 1)

\* one struct (ssssssouso), which starts on a multiple of 8
UnitBytes(u) == EncUnitFields(newEncoder(<< >>), u, 1).dst

Pad8(b) == b \o Zeros((8 - (Len(b) % 8)) % 8)

\* the structs of an array, each but the last padded to a multiple of 8
RECURSIVE ArrayBytes(_, _)
ArrayBytes(us, i) ==
    IF i > Len(us) THEN << >>
    ELSE IF i = Len(us) THEN UnitBytes(us[i])
    ELSE Pad8(UnitBytes(us[i])) \o ArrayBytes(us, i + 1)

\* a(ssssssouso): the length of the array in bytes, padding to 8, the structs
UnitsBody(us) == (U32(Len(ArrayBytes(us, 1))) \o Zeros(4)) \o ArrayBytes(us, 1)

\* v: the signature "u" and the uint32
PidBody(pid) == EncUint32(EncSignature(newEncoder(<< >>), << 117 >>), pid).dst

\* s: one string
StringBody(str) == EncString(newEncoder(<< >>), str).dst

ListUnitsReply(serial, replySerial, us) ==
    BusMessage(typeMethodReply, serial, ReplyFields(replySerial, sUnitsSignature), UnitsBody(us))

MainPIDReply(serial, replySerial, pid) ==
    BusMessage(typeMethodReply, serial, ReplyFields(replySerial, << 118 >>), PidBody(pid))

ErrorReply(serial, replySerial) ==
    BusMessage(typeError, serial,
        << FieldOf(fieldErrorName, 115, sErrorName, U32(0)) >>
            \o ReplyFields(replySerial, << 115 >>),
        StringBody(sErrorText))

\* the signal the bus sends to a connection right after the reply to Hello
NameAcquired(serial) ==
    BusMessage(typeSignal, serial,
        << FieldOf(fieldPath, 111, sBusPath, U32(0)),
           FieldOf(fieldInterface, 115, sBusName, U32(0)),
           FieldOf(fieldMember, 115, sNameAcquired, U32(0)),
           FieldOf(fieldSignature, 103, << 115 >>, U32(0)) >>,
        StringBody(sUniqueName))

\* the units the bus reports
UnitA == [ZeroUnit EXCEPT !.Name = << 97, 46, 115, 101, 114, 118, 105, 99, 101 >>, !.Path = << 47, 97 >>, !.JobID = U32(1)]
UnitB == [ZeroUnit EXCEPT !.Name = << 98, 46, 115, 111, 99, 107, 101, 116 >>, !.ActiveState = << 117, 112 >>, !.JobID = U32(2)]
\* the replies to ListUnits: at most MaxUnits units, no unit following itself
UnitLists ==
    {us \in UNION {[1..n -> {UnitA, UnitB}] : n \in 0..MaxUnits} :
        \A i \in 1..(Len(us) - 1) : us[i] # us[i + 1]}

\* the predicates handed to ListUnits: none, or IsService
Predicates == {"nil", "IsService"}

HasSuffix(str, suffix) ==
    /\ Len(str) >= Len(suffix)
    /\ SubSeq(str, Len(str) - Len(suffix) + 1, Len(str)) = suffix

IsService(u) == HasSuffix(u.Name, sServiceSuffix)

\* p == nil || p(&d.unit)
Accepts(p, u) == p = "nil" \/ IsService(u)

-----------------------------------------------------------------------------
(* The state of a client and of the header codec harness when not in use *)

Callers == {"main", "nested"}

\* no message: what a decoder reads when it does not start at a message
NoMsg ==
    [start |-> -1, end |-> -1, kind |-> "none", replySerial |-> U32(0), units |-> << >>,
     pid |-> U32(0)]

NoReq == [op |-> "", serial |-> U32(0), buf |-> << >>]

IdleCall ==
    [at |-> "idle", op |-> "", serial |-> U32(0), p |-> "nil", msg |-> NoMsg,
     delivered |-> << >>]

NoRet ==
    [op |-> "", serial |-> U32(0), p |-> "nil", err |-> "", pid |-> U32(0),
     msg |-> NoMsg, delivered |-> << >>]

NoRaw == [b |-> << >>, bad |-> FALSE]
NoEnc == [dst |-> << >>, offset |-> 0, err |-> ""]
NoDec == [h |-> ZeroHeader, err |-> "", offset |-> 0, pos |-> 0, skip |-> FALSE, input |-> << >>]

\* New: the client after construction, but for conn, msgs and check
NewClient ==
    /\ mu = FALSE
    /\ cdec = [lim |-> -1, offset |-> 0, order |-> "LE", buf |-> NoArray]
    /\ hdr = ZeroHeader
    /\ unit = ZeroUnit
    /\ sent = NoReq
    /\ pending = << >>
    /\ call = [c \in Callers |-> IdleCall]
    /\ ret = [c \in Callers |-> NoRet]
    /\ ncalls = 0

NoHs ==
    [pc |-> "off", given |-> FALSE, addr |-> << >>, uid |-> 0, log |-> << >>,
     reply |-> << >>, unread |-> FALSE, err |-> ""]
NoCv == [bufs |-> << >>, cur |-> 0, cap |-> 0, offset |-> 0, out |-> << >>]
NoLab == [in |-> << >>, out |-> << >>, done |-> FALSE]
NoImg == [b |-> << >>, kind |-> "none", us |-> << >>, pid |-> U32(0), drop |-> 0, rest |-> << >>]
NoMd ==
    [at |-> "off", op |-> "", skip |-> FALSE, d |-> newDecoder(<< >>, FALSE), h |-> ZeroHeader,
     unit |-> ZeroUnit, delivered |-> << >>, err |-> "", pid |-> U32(0), img |-> NoImg]
NoRd == [phase |-> "off", d |-> newDecoder(<< >>, FALSE), n |-> 0]
NoSg == [phase |-> "off", d |-> newDecoder(<< >>, FALSE), n |-> 0, e |-> 0, pos0 |-> 0,
         offset0 |-> 0]

HarnessOff ==
    /\ hphase = "off"
    /\ hIn = ZeroHeader
    /\ raw = NoRaw
    /\ enc = NoEnc
    /\ dec = NoDec

-----------------------------------------------------------------------------
(* Inputs of the header codec *)

\* header fields with the four supported signatures ...
FieldU == [Signature |-> << 117 >>, U |-> U32(3), S |-> << >>, Code |-> fieldReplySerial]
FieldS == [Signature |-> << 115 >>, U |-> U32(0), S |-> << 58, 49 >>, Code |-> fieldDestination]
FieldO == [Signature |-> << 111 >>, U |-> U32(0), S |-> << 47 >>, Code |-> fieldPath]
FieldG == [Signature |-> << 103 >>, U |-> U32(0), S |-> << 118 >>, Code |-> fieldSignature]
\* ... and with an array signature, a two-character and an empty signature
FieldA == [Signature |-> << 97 >>, U |-> U32(0), S |-> << >>, Code |-> fieldUnixFDs]
FieldSS == [Signature |-> << 115, 115 >>, U |-> U32(0), S |-> << >>, Code |-> fieldSignature]
FieldE == [Signature |-> << >>, U |-> U32(0), S |-> << >>, Code |-> fieldInterface]

GoodFields == {FieldU, FieldS, FieldO, FieldG}
BadFields == {FieldA, FieldSS, FieldE}

\* a variant signature the header codec supports
Supported(sig) == Len(sig) = 1 /\ sig[1] \in {117, 115, 111, 103}

FieldLists == UNION {[1..n -> GoodFields \cup BadFields] : n \in 0..MaxFields}

Headers ==
    {[ByteOrder |-> o, Type |-> typeMethodReply, Flags |-> 1, Proto |-> 1,
      BodyLen |-> bl, Serial |-> sr, FieldsLen |-> fl, Fields |-> fs] :
        o \in {littleEndian, bigEndian},
        bl \in {U32(0), U32(maxMessageSize), U32(maxMessageSize + 1)},
        sr \in {U32(1), MaxUint32},
        fl \in {U32(0), U32(8)},
        fs \in FieldLists}

\* the 16 bytes of a prologue as a peer writes them
Prologue(o, type, flags, bodyLen, serial, fieldsLen) ==
    << o, type, flags, 1 >> \o PutUint32(Order(o), bodyLen)
        \o PutUint32(Order(o), serial) \o PutUint32(Order(o), fieldsLen)

\* Wire images handed to decodeHeader as they are: b the bytes, bad whether
\* one of the header fields has a signature the codec does not support.
RawInputs ==
    { \* one field (UNIX_FDS, signature "a") and the padding to 24
      [b |-> Prologue(littleEndian, typeMethodReply, 1, U32(0), U32(7), U32(4))
                \o << fieldUnixFDs, 1, 97, 0 >> \o Zeros(4), bad |-> TRUE],
      \* one field (SIGNATURE, signature "ss") and the padding to 24
      [b |-> Prologue(littleEndian, typeMethodReply, 1, U32(0), U32(7), U32(5))
                \o << fieldSignature, 2, 115, 115, 0 >> \o Zeros(3), bad |-> TRUE],
      \* one field with the empty signature and the padding to 24
      [b |-> Prologue(littleEndian, typeMethodReply, 1, U32(0), U32(7), U32(3))
                \o << fieldInterface, 0, 0 >> \o Zeros(5), bad |-> TRUE],
      \* a field with signature "a", then REPLY_SERIAL = 7
      [b |-> Prologue(bigEndian, typeMethodReply, 1, U32(0), U32(9), U32(16))
                \o << fieldUnixFDs, 1, 97, 0, 0, 0, 0, 0 >>
                \o << fieldReplySerial, 1, 117, 0, 0, 0, 0, 7 >>, bad |-> TRUE],
      \* a field with signature "a" that ends the input
      [b |-> Prologue(littleEndian, typeMethodReply, 1, U32(0), U32(7), U32(4))
                \o << fieldUnixFDs, 1, 97, 0 >>, bad |-> TRUE],
      \* REPLY_SERIAL = 7 and a body of 8 bytes
      [b |-> Prologue(bigEndian, typeMethodReply, 1, U32(8), U32(9), U32(8))
                \o << fieldReplySerial, 1, 117, 0, 0, 0, 0, 7 >> \o Zeros(8), bad |-> FALSE],
      \* DESTINATION, a string that states 100 bytes, and a body of 8 bytes
      [b |-> Prologue(littleEndian, typeMethodReply, 1, U32(8), U32(7), U32(8))
                \o << fieldDestination, 1, 115, 0, 100, 0, 0, 0 >> \o Zeros(8), bad |-> FALSE],
      \* body-len at the limit and one byte above it
      [b |-> Prologue(littleEndian, typeMethodReply, 1, U32(maxMessageSize), U32(7), U32(0))
                \o Zeros(8), bad |-> FALSE],
      [b |-> Prologue(littleEndian, typeMethodReply, 1, U32(maxMessageSize + 1), U32(7), U32(0))
                \o Zeros(8), bad |-> FALSE],
      [b |-> Prologue(bigEndian, typeMethodReply, 1, U32(maxMessageSize + 1), U32(7), U32(0))
                \o Zeros(8), bad |-> FALSE],
      \* a first byte that is no byte-order marker
      [b |-> << 120 >> \o SubSeq(Prologue(littleEndian, typeMethodReply, 1, U32(0), U32(7), U32(0)), 2, 16)
                \o Zeros(8), bad |-> FALSE],
      \* an input that ends inside the prologue
      [b |-> SubSeq(Prologue(littleEndian, typeMethodReply, 1, U32(0), U32(7), U32(0)), 1, 10),
       bad |-> FALSE] }

\* bytes that follow a header in its stream: nothing, or a body
Tails == {<< >>, Zeros(8)}

-----------------------------------------------------------------------------
(* The header codec applied to its inputs *)

InitHdr ==
    /\ hphase = "init"
    /\ \/ hIn \in Headers /\ raw = NoRaw
       \/ hIn = ZeroHeader /\ raw \in RawInputs
    /\ enc = NoEnc
    /\ dec = NoDec
    /\ NewClient /\ msgSerial = U32(0) /\ check = FALSE /\ conn = << >> /\ msgs = << >>
    /\ lead = -1 /\ k = 0
    /\ hs = NoHs /\ cv = NoCv /\ lab = NoLab /\ sg = NoSg /\ rd = NoRd /\ md = NoMd

\* encodeHeader on a fresh buffer, as TestEncodeHeader calls it
HdrEncode ==
    /\ hphase = "init"
    /\ raw = NoRaw
    /\ LET r == encodeHeader(newEncoder(<< >>), hIn)
       IN  enc' = [dst |-> r.e.dst, offset |-> r.e.offset, err |-> r.err]
    /\ hphase' = "encoded"
    /\ UNCHANGED <<hIn, raw, dec, cvars, svars, ovars>>

DecodeBytes(input, skip) ==
    LET r == decodeHeader(newDecoder(input, FALSE), ZeroHeader, skip)
    IN  [h |-> r.h, err |-> r.err, offset |-> r.d.offset, pos |-> r.d.pos,
         skip |-> skip, input |-> input]

\* decodeHeader on the bytes encodeHeader produced, as TestDecodeHeader calls it
HdrDecodeEncoded ==
    /\ hphase = "encoded"
    /\ enc.err = ""
    /\ \E skip \in BOOLEAN, tail \in Tails :
          dec' = DecodeBytes(enc.dst \o tail, skip)
    /\ hphase' = "decoded"
    /\ UNCHANGED <<hIn, raw, enc, cvars, svars, ovars>>

\* decodeHeader on a wire image
HdrDecodeRaw ==
    /\ hphase = "init"
    /\ raw # NoRaw
    /\ \E skip \in BOOLEAN : dec' = DecodeBytes(raw.b, skip)
    /\ hphase' = "decoded"
    /\ UNCHANGED <<hIn, raw, enc, cvars, svars, ovars>>

NextHdr == HdrEncode \/ HdrDecodeEncoded \/ HdrDecodeRaw

SpecHdr == InitHdr /\ [][NextHdr]_vars

-----------------------------------------------------------------------------
(* Properties of the header codec, checked under SpecHdr *)

\* every field of h has one of the signatures u, s, o, g
AllSupported(h) == \A i \in 1..Len(h.Fields) : Supported(h.Fields[i].Signature)

\* body-len as the prologue bytes b state it, in the byte order of their marker
WireBodyLen(b) ==
    Nat32(IF b[1] = bigEndian THEN Reverse4(SubSeq(b, 5, 8)) ELSE SubSeq(b, 5, 8))

\* C8: decodeHeader with field parsing returns an error whenever a header
\* field has a signature that is not one of u, s, o, g (so such a header is
\* never reported as decoded), and encodeHeader returns an error for a header
\* with such a field.
C8_UnsupportedSignatureFails ==
    /\ (hphase = "decoded" /\ raw.bad /\ ~dec.skip) => dec.err # ""
    /\ (hphase # "init" /\ raw = NoRaw /\ ~AllSupported(hIn)) => enc.err # ""

\* C9: for a header with fields of signatures u, s, o, g only, decoding with
\* field parsing what encodeHeader wrote succeeds and gives the same header:
\* the seven prologue values and the list of fields in order.
C9_HeaderRoundTrip ==
    (hphase = "decoded" /\ raw = NoRaw /\ ~dec.skip /\ AllSupported(hIn))
        => (dec.err = "" /\ dec.h = hIn)

WireUint32(b, at) ==
    IF b[1] = bigEndian THEN Reverse4(SubSeq(b, at + 1, at + 4))
    ELSE SubSeq(b, at + 1, at + 4)

\* the bytes one header field takes from its 8-boundary on: code, signature
\* of one character, value
FieldSize(f) ==
    4 + (IF f.Signature[1] = 117 THEN 4
         ELSE IF f.Signature[1] = 103 THEN 1 + Len(f.S) + 1
         ELSE 4 + Len(f.S) + 1)

\* the offset at which the fields fs[i..] end when they start at offset off
RECURSIVE FieldsEnd(_, _, _)
FieldsEnd(fs, i, off) ==
    IF i > Len(fs) THEN off
    ELSE FieldsEnd(fs, i + 1, ((off + 7) \div 8) * 8 + FieldSize(fs[i]))

\* the length of the fields array: from the end of the prologue to the end
\* of the last field
FieldsArrayLen(fs) == FieldsEnd(fs, 1, messagePrologueSize) - messagePrologueSize

\* encodeHeader has returned without error for the header hIn
Encoded == hphase # "init" /\ raw = NoRaw /\ enc.err = ""

\* C16: the byte-order marker governs every UINT32 of the message:
\* encodeHeader emits body-len, serial, fields-len and the length of a string
\* field in the order the marker of the header names ('B' big-endian, 'l'
\* little-endian), and decodeHeader parses body-len, serial and fields-len
\* in the order named by the marker it read.
C16_MarkerGovernsUint32 ==
    /\ Encoded =>
        /\ WireUint32(enc.dst, 4) = hIn.BodyLen
        /\ WireUint32(enc.dst, 8) = hIn.Serial
        /\ WireUint32(enc.dst, 12) = U32(FieldsArrayLen(hIn.Fields))
        /\ (Len(hIn.Fields) >= 1 /\ hIn.Fields[1].Signature[1] \in {115, 111})
              => WireUint32(enc.dst, 20) = U32(Len(hIn.Fields[1].S))
    /\ (hphase = "decoded" /\ Len(dec.input) >= messagePrologueSize
                           /\ Order(dec.input[1]) # "nil")
          => /\ dec.h.BodyLen = WireUint32(dec.input, 4)
             /\ dec.h.Serial = WireUint32(dec.input, 8)
             /\ dec.h.FieldsLen = WireUint32(dec.input, 12)

\* C17: when encodeHeader or decodeHeader returns without error on an
\* encoder or decoder that started at offset 0, the offset is a multiple of 8
\* and is the number of bytes emitted or consumed, whatever FieldsLen and
\* whatever the fields: nothing of a body lies before that boundary.
C17_HeaderEndsAligned ==
    /\ Encoded => (enc.offset % 8 = 0 /\ Len(enc.dst) = enc.offset)
    /\ (hphase = "decoded" /\ dec.err = "")
          => (dec.offset % 8 = 0 /\ dec.pos = dec.offset)

\* the prologue values of the header h
PrologueValues(h) ==
    << h.ByteOrder, h.Type, h.Flags, h.Proto, h.BodyLen, h.Serial, h.FieldsLen >>

\* C28: on an input on which decodeHeader succeeds, decoding with and
\* without the header fields consumes the same number of bytes, the
\* 16 + fields-len bytes rounded up to a multiple of 8, yields the same
\* prologue values and leaves the same offset; with field parsing the
\* decoder reads no byte beyond that end of the header.
C28_SkipAndParseAgree ==
    (hphase = "decoded" /\ dec.err = "")
        => /\ dec.pos = HeaderLen(dec.h)
           /\ dec.offset = HeaderLen(dec.h)
           /\ Bind(DecodeBytes(dec.input, ~dec.skip), LAMBDA o :
                    o.err = "" => /\ o.pos = dec.pos
                                  /\ o.offset = dec.offset
                                  /\ PrologueValues(o.h) = PrologueValues(dec.h))

\* C30: on an input of 16 bytes or more whose first byte is neither 'l' nor
\* 'B', decodeHeader returns an error: it does not fail at run time on the
\* missing byte order, parses none of the prologue integers and consumes
\* nothing after the 16 bytes of the prologue.
C30_UnknownMarkerFails ==
    (/\ hphase = "decoded"
     /\ Len(dec.input) >= messagePrologueSize
     /\ Order(dec.input[1]) = "nil")
        => /\ dec.err \notin {"", "panic"}
           /\ dec.pos = messagePrologueSize
           /\ dec.h.BodyLen = U32(0) /\ dec.h.Serial = U32(0) /\ dec.h.FieldsLen = U32(0)

\* C18: after encodeHeader succeeded on a fresh encoder, whatever FieldsLen
\* the caller passed, the UINT32 at byte offset 12 of the emitted header is
\* the length L of the fields array as serialized, and the buffer holds
\* exactly the 16 + L bytes rounded up to a multiple of 8, which is what
\* header.Len returns for FieldsLen = L.
C18_FieldsLenSelfConsistent ==
    Encoded =>
        /\ Nat32(WireUint32(enc.dst, 12)) = FieldsArrayLen(hIn.Fields)
        /\ Len(enc.dst) = ((messagePrologueSize + FieldsArrayLen(hIn.Fields) + 7) \div 8) * 8
        /\ Len(enc.dst) = HeaderLen([hIn EXCEPT !.FieldsLen = U32(FieldsArrayLen(hIn.Fields))])

-----------------------------------------------------------------------------
(* The serial counter *)

\* nextMsgSerial without the step over zero
nextMsgSerialNoSkip(ms) == U32Inc(ms)

\* nextMsgSerial stepping over 1 as well when it wraps
nextMsgSerialSkipOne(ms) == IF U32Inc(ms) = U32(0) THEN U32(2) ELSE U32Inc(ms)

\* nextMsgSerial: the new value of c.msgSerial, which is the value returned
nextMsgSerial(ms) == IF U32Inc(ms) = U32(0) THEN U32Inc(U32Inc(ms)) ELSE U32Inc(ms)

\* c.msgSerial after no call (l = -1) or after 2^32 - 1 - l calls
SerialAfter(l) == IF l = -1 THEN U32(0) ELSE << 255 - l, 255, 255, 255 >>

InitSerial ==
    /\ HarnessOff
    /\ NewClient /\ check = FALSE /\ conn = << >> /\ msgs = << >>
    /\ lead \in -1..SerialLead
    /\ msgSerial = SerialAfter(lead)
    /\ k = 0
    /\ hs = NoHs /\ cv = NoCv /\ lab = NoLab /\ sg = NoSg /\ rd = NoRd /\ md = NoMd

NextSerial ==
    /\ k < MaxSerialCalls
    /\ msgSerial' = nextMsgSerial(msgSerial)
    /\ k' = k + 1
    /\ UNCHANGED <<hvars, ovars, mu, check, conn, cdec, hdr, unit, sent, pending, call, ret,
                   ncalls, msgs, lead>>

SpecSerial == InitSerial /\ [][NextSerial]_vars

\* ((K - 1) mod (2^32 - 1)) + 1 for the call number K = n, or
\* K = 2^32 - 1 - l + n, as a uint32
ExpectedSerial(l, n) ==
    IF l = -1 THEN U32(n)
    ELSE IF n <= l THEN << 255 - (l - n), 255, 255, 255 >>
    ELSE U32(n - l)

\* C2: nextMsgSerial never returns 0: call number K returns
\* ((K - 1) mod (2^32 - 1)) + 1, so the call after the one that returned
\* 2^32 - 1 returns 1.
C2_SerialSequence ==
    k >= 1 => (msgSerial # U32(0) /\ msgSerial = ExpectedSerial(lead, k))

\* the counter has stepped from 2^32 - 1 to 1
C2_Witness == lead >= 0 /\ k = lead + 1 /\ msgSerial = U32(1)

\* C15 as stated: from msgSerial = 2^32 - 1, the first call returns 2^32 - 1
\* and the second call returns 1.
C15_WrapAsStated ==
    lead = 0 =>
        /\ k = 1 => msgSerial = MaxUint32
        /\ k = 2 => msgSerial = U32(1)

\* C15: from msgSerial = 2^32 - 1 two calls return 1 and then 2; it is from
\* msgSerial = 2^32 - 2 that they return 2^32 - 1 and then 1, the zero
\* being skipped.
C15_Wrap ==
    /\ lead = 0 =>
        /\ k = 1 => msgSerial = U32(1)
        /\ k = 2 => msgSerial = U32(2)
    /\ lead = 1 =>
        /\ k = 1 => msgSerial = MaxUint32
        /\ k = 2 => msgSerial = U32(1)

\* two calls made from msgSerial = 2^32 - 1
C15_Witness == lead = 0 /\ k = 2 /\ msgSerial = U32(2)

-----------------------------------------------------------------------------
(* The client: ListUnits and MainPID on one connection to the bus *)

\* the unit name MainPID is called with: "dbus.service"
sDbusService == << 100, 98, 117, 115, 46, 115, 101, 114, 118, 105, 99, 101 >>

\* the main PIDs the bus reports
Pids == {U32(0), U32(7)}

\* c.msgDec.Dec reading c.bufConn
MkDec ==
    [newDecoder(conn, TRUE) EXCEPT !.lim = cdec.lim, !.offset = cdec.offset,
                                   !.order = cdec.order, !.buf = cdec.buf]

\* what is left of the messages after n bytes of conn are read
RECURSIVE Shift(_, _)
Shift(ms, n) ==
    IF ms = << >> THEN << >>
    ELSE IF ms[1].end <= n THEN Shift(Tail(ms), n)
    ELSE << [ms[1] EXCEPT !.start = @ - n, !.end = @ - n] >> \o Shift(Tail(ms), n)

\* the decoder d has read d.pos bytes of conn
Consumed(d) ==
    /\ conn' = SubSeq(conn, d.pos + 1, Len(conn))
    /\ msgs' = Shift(msgs, d.pos)
    /\ cdec' = [lim |-> IF d.lim < 0 THEN -1 ELSE d.lim - d.pos, offset |-> d.offset,
                order |-> d.order, buf |-> d.buf]

\* the message of the bus that starts where the decoder starts reading
MsgAtStart == IF msgs # << >> /\ msgs[1].start = 0 THEN msgs[1] ELSE NoMsg

\* sync.Mutex.TryLock succeeding whether or not the mutex is held
TryLockAlways(m) == TRUE

\* sync.Mutex.TryLock: TRUE when the lock is taken
TryLock(m) == ~m

\* verifyMsgSerial taking the reply serial from the first header field
verifyMsgSerialFirstField(h, wantSerial) ==
    IF wantSerial # (IF h.Fields = << >> THEN U32(0) ELSE h.Fields[1].U)
    THEN "message reply serial mismatch" ELSE ""

\* the loop of verifyMsgSerial: U of the first REPLY_SERIAL field, else 0
RECURSIVE replySerialFrom(_, _)
replySerialFrom(fs, i) ==
    IF i > Len(fs) THEN U32(0)
    ELSE IF fs[i].Code = fieldReplySerial THEN fs[i].U
    ELSE replySerialFrom(fs, i + 1)

verifyMsgSerial(h, wantSerial) ==
    IF wantSerial # replySerialFrom(h.Fields, 1)
    THEN "message reply serial mismatch" ELSE ""

\* if c.conf.isSerialCheckEnabled { err = verifyMsgSerial(...) }; return err
SerialChecked(h, serial) == IF check THEN verifyMsgSerial(h, serial) ELSE ""

\* the call of c returns and the mutex stays locked
ReturnsLocked(c, err, pid) ==
    /\ ret' = [ret EXCEPT ![c] = [op |-> call[c].op, serial |-> call[c].serial,
                                  p |-> call[c].p, err |-> err, pid |-> pid,
                                  msg |-> call[c].msg, delivered |-> call[c].delivered]]
    /\ call' = [call EXCEPT ![c] = IdleCall]
    /\ mu' = mu

\* the call of c returns; the deferred Unlock runs
Returns(c, err, pid) ==
    /\ ret' = [ret EXCEPT ![c] = [op |-> call[c].op, serial |-> call[c].serial,
                                  p |-> call[c].p, err |-> err, pid |-> pid,
                                  msg |-> call[c].msg, delivered |-> call[c].delivered]]
    /\ call' = [call EXCEPT ![c] = IdleCall]
    /\ mu' = FALSE

\* the main caller makes MaxCalls calls; the nested caller calls while a
\* call of the main caller is in progress, e.g. from its callback
MayCall(c) ==
    IF c = "main" THEN ncalls < MaxCalls ELSE call["main"].at # "idle"

\* the request r of the call is written to the connection
RequestWritten(c, op, p, serial, r) ==
    IF r.err # ""
    THEN /\ ret' = [ret EXCEPT ![c] = [NoRet EXCEPT !.op = op, !.serial = serial, !.p = p,
                                                     !.err = "encode"]]
         /\ mu' = FALSE
         /\ UNCHANGED <<sent, pending, call>>
    ELSE /\ sent' = [op |-> op, serial |-> serial, buf |-> r.buf]
         /\ pending' = Append(pending, [op |-> op, serial |-> serial])
         /\ call' = [call EXCEPT ![c] = [IdleCall EXCEPT !.at = "hdr", !.op = op,
                                                        !.serial = serial, !.p = p]]
         /\ mu' = TRUE
         \* the caller has taken the result of its last call
         /\ ret' = [ret EXCEPT ![c] = NoRet]

\* ListUnits or MainPID up to the write of the request
CallStart(c, op, p) ==
    /\ call[c].at = "idle"
    /\ MayCall(c)
    /\ TryLock(mu)
    /\ msgSerial' = nextMsgSerial(msgSerial)
    /\ ncalls' = IF c = "main" THEN ncalls + 1 ELSE ncalls
    /\ RequestWritten(c, op, p, nextMsgSerial(msgSerial),
                      IF op = "ListUnits" THEN EncodeListUnits(nextMsgSerial(msgSerial))
                      ELSE EncodeMainPID(sDbusService, nextMsgSerial(msgSerial)))
    /\ UNCHANGED <<hvars, svars, ovars, check, conn, cdec, hdr, unit, msgs>>

\* ListUnits or MainPID finding the mutex held
CallRejected(c, op) ==
    /\ call[c].at = "idle"
    /\ MayCall(c)
    /\ ~TryLock(mu)
    /\ ret' = [ret EXCEPT ![c] = [NoRet EXCEPT !.op = op, !.err = "must be called serially"]]
    /\ UNCHANGED <<hvars, svars, ovars, mu, msgSerial, check, conn, cdec, hdr, unit, sent, pending,
                   call, ncalls, msgs>>

\* DecodeListUnits has decoded the header and the length of the array
HeadDecoded(c, r) ==
    /\ r.err # "block"
    /\ hdr' = r.h
    /\ Consumed(r.d)
    /\ IF r.err # ""
       THEN Returns(c, IF r.err = "panic" THEN "panic" ELSE "decode ListUnits", U32(0))
       ELSE /\ call' = [call EXCEPT ![c].at = "loop", ![c].msg = MsgAtStart]
            /\ UNCHANGED <<mu, ret>>
    /\ UNCHANGED <<hvars, svars, ovars, msgSerial, check, unit, sent, pending, ncalls>>

ListUnitsHead(c) ==
    /\ call[c].at = "hdr"
    /\ call[c].op = "ListUnits"
    /\ HeadDecoded(c, DecodeListUnitsHead(MkDec, hdr, ~check))

\* the body of the loop of DecodeListUnits: f(&d.unit) for a unit the
\* predicate accepts
LoopBody(c) ==
    /\ call[c].at = "loop"
    /\ IF Accepts(call[c].p, unit)
       THEN call' = [call EXCEPT ![c].at = "incb",
                                 ![c].delivered = Append(@, unit)]
       ELSE call' = [call EXCEPT ![c].at = "unit"]
    /\ UNCHANGED <<hvars, svars, ovars, mu, msgSerial, check, conn, cdec, hdr, unit, sent, pending,
                   ret, ncalls, msgs>>

\* f returns
CallbackReturn(c) ==
    /\ call[c].at = "incb"
    /\ call' = [call EXCEPT ![c].at = "unit"]
    /\ UNCHANGED <<hvars, svars, ovars, mu, msgSerial, check, conn, cdec, hdr, unit, sent, pending,
                   ret, ncalls, msgs>>

\* the post statement of the loop, err = decodeUnit(...), its condition,
\* and what follows the loop
UnitDecoded(c, r) ==
    /\ r.err # "block"
    /\ unit' = r.unit
    /\ Consumed(r.d)
    /\ IF r.err = ""
       THEN /\ call' = [call EXCEPT ![c].at = "loop"]
            /\ UNCHANGED <<mu, ret>>
       ELSE IF r.err = "EOF"
       THEN Returns(c, SerialChecked(hdr, call[c].serial), U32(0))
       ELSE Returns(c, IF r.err = "panic" THEN "panic" ELSE "decode ListUnits", U32(0))
    /\ UNCHANGED <<hvars, svars, ovars, msgSerial, check, hdr, sent, pending, ncalls>>

ListUnitsNext(c) ==
    /\ call[c].at = "unit"
    /\ UnitDecoded(c, decodeUnit(MkDec, unit))

\* MainPID from DecodeMainPID to its return
PidDecoded(c, r) ==
    /\ r.err # "block"
    /\ hdr' = r.h
    /\ Consumed(r.d)
    /\ call' = [call EXCEPT ![c] = IdleCall]
    /\ mu' = FALSE
    /\ ret' = [ret EXCEPT ![c] =
                [op |-> "MainPID", serial |-> call[c].serial, p |-> "nil",
                 err |-> IF r.err = "panic" THEN "panic"
                         ELSE IF r.err # "" THEN "decode MainPID"
                         ELSE SerialChecked(r.h, call[c].serial),
                 pid |-> r.pid, msg |-> MsgAtStart, delivered |-> << >>]]
    /\ UNCHANGED <<hvars, svars, ovars, msgSerial, check, unit, sent, pending, ncalls>>

MainPIDReturn(c) ==
    /\ call[c].at = "hdr"
    /\ call[c].op = "MainPID"
    /\ PidDecoded(c, DecodeMainPID(MkDec, hdr, ~check))

\* the serial the bus gives to its answer to the request rq
BusSerial(rq) == U32Inc(U32Inc(rq.serial))

\* the bus writes the message b to the connection
Arrives(b, kind, replySerial, us, pid) ==
    /\ conn' = conn \o b
    /\ msgs' = Append(msgs, [start |-> Len(conn), end |-> Len(conn) + Len(b), kind |-> kind,
                             replySerial |-> replySerial, units |-> us, pid |-> pid])

\* the bus answers the oldest request it has not answered
BusReply ==
    /\ pending # << >>
    /\ IF pending[1].op = "ListUnits"
       THEN \E us \in UnitLists :
                Arrives(ListUnitsReply(BusSerial(pending[1]), pending[1].serial, us),
                        "units", pending[1].serial, us, U32(0))
       ELSE \E pid \in Pids :
                Arrives(MainPIDReply(BusSerial(pending[1]), pending[1].serial, pid),
                        "pid", pending[1].serial, << >>, pid)
    /\ pending' = Tail(pending)
    /\ UNCHANGED <<hvars, svars, ovars, mu, msgSerial, check, cdec, hdr, unit, sent, call, ret, ncalls>>

\* the bus answers it with an error
BusError ==
    /\ pending # << >>
    /\ Arrives(ErrorReply(BusSerial(pending[1]), pending[1].serial), "error",
               pending[1].serial, << >>, U32(0))
    /\ pending' = Tail(pending)
    /\ UNCHANGED <<hvars, svars, ovars, mu, msgSerial, check, cdec, hdr, unit, sent, call, ret, ncalls>>

\* what sendHello's one Read may leave on the connection: nothing, or the
\* NameAcquired signal that follows the reply to Hello
Leftover(b) ==
    \/ conn = << >> /\ msgs = << >>
    \/ /\ conn = b
       /\ msgs = << [start |-> 0, end |-> Len(b), kind |-> "signal", replySerial |-> U32(0),
                     units |-> << >>, pid |-> U32(0)] >>

\* the client New returns, with or without WithSerialCheck
Init ==
    /\ HarnessOff
    /\ NewClient
    /\ msgSerial = U32(0)
    /\ check \in BOOLEAN
    /\ Leftover(NameAcquired(U32(2)))
    /\ lead = -1 /\ k = 0
    /\ hs = NoHs /\ cv = NoCv /\ lab = NoLab /\ sg = NoSg /\ rd = NoRd /\ md = NoMd

Next ==
    \/ \E c \in Callers : \E op \in {"ListUnits", "MainPID"} : \E p \in Predicates :
            CallStart(c, op, IF op = "ListUnits" THEN p ELSE "nil")
    \/ \E c \in Callers : \E op \in {"ListUnits", "MainPID"} : CallRejected(c, op)
    \/ \E c \in Callers : ListUnitsHead(c)
    \/ \E c \in Callers : LoopBody(c)
    \/ \E c \in Callers : CallbackReturn(c)
    \/ \E c \in Callers : ListUnitsNext(c)
    \/ \E c \in Callers : MainPIDReturn(c)
    \/ BusReply
    \/ BusError

Spec == Init /\ [][Next]_vars

-----------------------------------------------------------------------------
(* Properties of the client *)

\* the call of c has returned something other than the rejection of the gate
Finished(c) ==
    /\ ret[c].op # ""
    /\ ret[c].err # "must be called serially"

\* C1: a ListUnits or MainPID call made while the mutex is held (a call of
\* another caller is in progress, e.g. the call is made from the callback of
\* ListUnits) returns "must be called serially", and does nothing else: no
\* serial is taken, no request is written, nothing is read from the
\* connection, no callback runs and the lock stays with its holder.
C1_GateRejects ==
    [][\A c \in Callers :
        (mu /\ call[c].at = "idle" /\ (call'[c] # call[c] \/ ret'[c] # ret[c]))
            => /\ ret'[c].err = "must be called serially"
               /\ call' = call
               /\ mu' = mu
               /\ msgSerial' = msgSerial
               /\ sent' = sent /\ pending' = pending
               /\ conn' = conn /\ cdec' = cdec /\ hdr' = hdr /\ unit' = unit]_vars

\* a MainPID call made from the callback of ListUnits has been rejected
C1_Witness ==
    /\ call["main"].at = "incb"
    /\ call["main"].op = "ListUnits"
    /\ ret["nested"].op = "MainPID"
    /\ ret["nested"].err = "must be called serially"
    /\ mu

\* the units of us that the predicate p accepts, in their order
Accepted(p, us) == SelectSeq(us, LAMBDA u : Accepts(p, u))

\* C3: a ListUnits call without a predicate that decodes a reply of N units
\* and returns no error has invoked the callback exactly N times, once for
\* each unit of the reply in its order, and never for an empty array.
C3_CallbackOncePerUnit ==
    \A c \in Callers :
        (/\ Finished(c)
         /\ ret[c].op = "ListUnits"
         /\ ret[c].p = "nil"
         /\ ret[c].err = ""
         /\ ret[c].msg.kind = "units")
            => /\ Len(ret[c].delivered) = Len(ret[c].msg.units)
               /\ ret[c].delivered = ret[c].msg.units

\* C4: whenever a request is written to the connection, the bus has answered
\* every earlier request and the client has read every byte of those
\* answers; no reply is unread or partly read.
C4_RequestAfterReplyDecoded ==
    [][sent' # sent
        => /\ pending = << >>
           /\ \A i \in 1..Len(msgs) : msgs[i].kind = "signal"]_vars

\* C5: without the serial check, a call that returns without an error has
\* decoded a message of the bus from its first byte, and that message is the
\* reply to the request of this call: its REPLY_SERIAL is the serial of the
\* call.
C5_DecodedIsOwnReply ==
    \A c \in Callers :
        (~check /\ Finished(c) /\ ret[c].err = "")
            => /\ ret[c].msg.kind \in {"units", "pid", "error"}
               /\ ret[c].msg.replySerial = ret[c].serial

\* C6: with the serial check, a call that has decoded a message of the bus
\* without a decoding error returns "message reply serial mismatch" exactly
\* when the REPLY_SERIAL of that message (0 when it has none) differs from
\* the serial of the call, and no error when they are equal.
C6_MismatchExactly ==
    \A c \in Callers :
        (/\ check
         /\ Finished(c)
         /\ ret[c].msg.kind # "none"
         /\ ret[c].err \in {"", "message reply serial mismatch"})
            => (ret[c].err = "message reply serial mismatch"
                    <=> ret[c].msg.replySerial # ret[c].serial)

\* a call has decoded the reply to an earlier request and returned the
\* mismatch
C6_Witness ==
    \E c \in Callers :
        /\ check
        /\ Finished(c)
        /\ ret[c].msg.kind \in {"units", "pid"}
        /\ ret[c].msg.replySerial # ret[c].serial
        /\ ret[c].err = "message reply serial mismatch"

\* C7: a ListUnits call that decodes a reply and returns no error has invoked
\* the callback for exactly the units of the reply that the predicate
\* accepts (all of them without a predicate), in the order of the reply.
C7_PredicateFilters ==
    \A c \in Callers :
        (/\ Finished(c)
         /\ ret[c].op = "ListUnits"
         /\ ret[c].err = ""
         /\ ret[c].msg.kind = "units")
            => ret[c].delivered = Accepted(ret[c].p, ret[c].msg.units)

\* the call of c is in the loop of DecodeListUnits over the body of a reply
\* that it reads from its first byte
InBody(c) == call[c].at \in {"loop", "incb", "unit"} /\ call[c].msg.kind # "none"

\* the bytes of that reply consumed so far: its length less what the
\* LimitReader leaves of its body
MsgConsumed(c) == (call[c].msg.end - call[c].msg.start) - cdec.lim

C24_CallbackGetsDecodedRecords ==
    \A c \in Callers :
        (call[c].op = "ListUnits" /\ call[c].msg.kind = "units")
            => LET acc == Accepted(call[c].p, call[c].msg.units)
                   n   == Len(call[c].delivered)
               IN  /\ n <= Len(acc)
                   /\ call[c].delivered = SubSeq(acc, 1, n)

\* C29: a call that has decoded a message of type error or signal returns an
\* error, and hands the caller nothing decoded from the body of that
\* message: the callback of ListUnits is not invoked and MainPID returns no
\* PID.
C29_TypeCheckedBeforeBody ==
    \A c \in Callers :
        (Finished(c) /\ ret[c].msg.kind \in {"error", "signal"})
            => /\ ret[c].err # ""
               /\ ret[c].delivered = << >>
               /\ ret[c].pid = U32(0)

\* C23: when ListUnits or MainPID has returned, with or without an error,
\* the mutex is free: it is held only while a call is in progress, and a
\* call is rejected with "must be called serially" only while another call
\* is in progress.
C23_GateFreeAfterReturn ==
    /\ []((\A c \in Callers : call[c].at = "idle") => ~mu)
    /\ [][\A c \in Callers :
            (ret'[c] # ret[c] /\ ret'[c].err = "must be called serially")
                => \E c2 \in Callers : c2 # c /\ call[c2].at # "idle"]_vars

\* with the serial check enabled the first call of the main caller has read
\* the signal left on the connection and returned an error, and its second
\* call has taken the mutex
C23_Witness ==
    /\ ncalls = 2
    /\ call["main"].at = "hdr"
    /\ mu
    /\ check
    /\ hdr.Type = typeSignal

-----------------------------------------------------------------------------
(* Construction of a client: Dial, authExternal and sendHello *)

\* what the other specifications leave alone
AllButHs == <<hvars, cvars, svars, cv, lab, sg, rd, md>>

\* "unix:path="
sUnixPrefix == << 117, 110, 105, 120, 58, 112, 97, 116, 104, 61 >>
\* "unix:path=/var/run/dbus/system_bus_socket"
sDefaultAddr ==
    sUnixPrefix \o << 47, 118, 97, 114, 47, 114, 117, 110, 47, 100, 98, 117, 115, 47, 115, 121,
                      115, 116, 101, 109, 95, 98, 117, 115, 95, 115, 111, 99, 107, 101, 116 >>
\* "AUTH EXTERNAL ", "\r\n", "OK" and "BEGIN\r\n"
sAuthExternal == << 65, 85, 84, 72, 32, 69, 88, 84, 69, 82, 78, 65, 76, 32 >>
sCRLF == << 13, 10 >>
sOK == << 79, 75 >>
sBegin == << 66, 69, 71, 73, 78, 13, 10 >>

helloMsg ==
    << 108, 1, 0, 1, 0, 0, 0, 0, 1, 0, 0, 0, 110, 0, 0, 0, 6, 1, 115, 0, 20, 0, 0, 0, 111,
       114, 103, 46, 102, 114, 101, 101, 100, 101, 115, 107, 116, 111, 112, 46, 68, 66, 117,
       115, 0, 0, 0, 0, 3, 1, 115, 0, 5, 0, 0, 0, 72, 101, 108, 108, 111, 0, 0, 0, 2, 1, 115,
       0, 20, 0, 0, 0, 111, 114, 103, 46, 102, 114, 101, 101, 100, 101, 115, 107, 116, 111,
       112, 46, 68, 66, 117, 115, 0, 0, 0, 0, 1, 1, 111, 0, 21, 0, 0, 0, 47, 111, 114, 103, 47,
       102, 114, 101, 101, 100, 101, 115, 107, 116, 111, 112, 47, 68, 66, 117, 115, 0, 0, 0 >>

\* bytes.HasPrefix and strings.HasPrefix
HasPrefix(b, prefix) ==
    /\ Len(b) >= Len(prefix)
    /\ SubSeq(b, 1, Len(prefix)) = prefix

\* strconv.Itoa of a uid
RECURSIVE Itoa(_)
Itoa(n) == IF n < 10 THEN << 48 + n >> ELSE Itoa(n \div 10) \o << 48 + (n % 10) >>

\* hex.EncodeToString
RECURSIVE HexEncode(_)
HexEncode(b) ==
    IF b = << >> THEN << >>
    ELSE << HexDigit(b[1] \div 16), HexDigit(b[1] % 16) >> \o HexEncode(Tail(b))

\* the line authExternal sends for the uid
AuthLine(uid) == sAuthExternal \o HexEncode(Itoa(uid)) \o sCRLF

\* the effective uids of the process
Uids == {0, 1000}

\* DBUS_SYSTEM_BUS_ADDRESS: unset, a unix path, or an address of another kind
Addrs == {<< >>, sUnixPrefix \o << 47, 98 >>, << 116, 99, 112, 58 >>}

\* the replies the server gives to the AUTH line, as one Read returns them:
\* "OK 1f\r\n", "OK", "O", "KO", "REJECTED", " OK" and nothing
AuthReplies ==
    { << 79, 75, 32, 49, 102, 13, 10 >>, << 79, 75 >>, << 79 >>, << 75, 79 >>,
      << 82, 69, 74, 69, 67, 84, 69, 68 >>, << 32, 79, 75 >>, << >> }

\* the buffer authExternal reads into: zeroes, with the bytes read in front
ReadInto(reply) == reply \o Zeros(2)

\* one entry of the log of what New did to the connection
Did(ev, ok, data) == [ev |-> ev, ok |-> ok, data |-> data]

\* a step of New that goes on although it returned an error
ThenAlways(h, ev, ok, data, next, err) ==
    [h EXCEPT !.log = Append(@, Did(ev, ok, data)), !.pc = next]

\* a step of New: what it did, and where New goes on after it, or the
\* error New returns
Then(h, ev, ok, data, next, err) ==
    [h EXCEPT !.log = Append(@, Did(ev, ok, data)),
              !.pc = IF ok THEN next ELSE "failed",
              !.err = IF ok THEN "" ELSE err]

\* the check of the reply accepting any reply that starts with "O"
ReplyIsO(b) == HasPrefix(b, << 79 >>)

\* !bytes.HasPrefix(b, []byte("OK")) in authExternal
ReplyIsOK(b) == HasPrefix(b, sOK)

\* New up to authExternal: the connection of the caller, or Dial
NewDial(ok) ==
    /\ hs.pc = "start"
    /\ hs' = IF hs.given THEN [hs EXCEPT !.pc = "null"]
             ELSE IF ~HasPrefix(IF hs.addr = << >> THEN sDefaultAddr ELSE hs.addr, sUnixPrefix)
             THEN [hs EXCEPT !.pc = "failed", !.err = "dbus address not found"]
             ELSE IF ok THEN [hs EXCEPT !.pc = "null"]
             ELSE [hs EXCEPT !.pc = "failed", !.err = "dial"]
    /\ UNCHANGED AllButHs

\* authExternal: rw.Write([]byte{0})
SendNull(ok) ==
    /\ hs.pc = "null"
    /\ hs' = Then(hs, "null", ok, << 0 >>, "auth", "dbus auth failed: send null failed")
    /\ UNCHANGED AllButHs

\* authExternal: the AUTH EXTERNAL line
SendAuth(ok) ==
    /\ hs.pc = "auth"
    /\ hs' = Then(hs, "auth", ok, AuthLine(hs.uid), "readauth",
                  "dbus auth failed: AUTH EXTERNAL uid")
    /\ UNCHANGED AllButHs

\* authExternal: rw.Read(b) and the test of the reply
ReadAuth(reply, ok) ==
    /\ hs.pc = "readauth"
    /\ hs' = IF ~ok
             THEN [Then(hs, "readauth", FALSE, reply, "begin", "dbus auth failed: read")
                      EXCEPT !.reply = reply]
             ELSE IF ~ReplyIsOK(ReadInto(reply))
             THEN [hs EXCEPT !.log = Append(@, Did("readauth", TRUE, reply)), !.reply = reply,
                             !.pc = "failed", !.err = "dbus auth failed: expected OK"]
             ELSE [Then(hs, "readauth", TRUE, reply, "begin", "") EXCEPT !.reply = reply]
    /\ UNCHANGED AllButHs

\* authExternal: BEGIN
SendBegin(ok) ==
    /\ hs.pc = "begin"
    /\ hs' = Then(hs, "begin", ok, sBegin, "hello", "dbus auth failed: BEGIN")
    /\ UNCHANGED AllButHs

\* sendHello: conn.Write(helloMsg)
SendHello(ok) ==
    /\ hs.pc = "hello"
    /\ hs' = Then(hs, "hello", ok, helloMsg, "readhello", "dbus hello failed")
    /\ UNCHANGED AllButHs

\* sendHello: the one conn.Read, which takes the reply to Hello with or
\* without the signal behind it; then New returns the client
ReadHello(ok, all) ==
    /\ hs.pc = "readhello"
    /\ hs' = [Then(hs, "readhello", ok, << >>, "done", "dbus hello failed")
                EXCEPT !.unread = ok /\ ~all]
    /\ UNCHANGED AllButHs

InitNew ==
    /\ HarnessOff
    /\ NewClient /\ msgSerial = U32(0) /\ check = FALSE /\ conn = << >> /\ msgs = << >>
    /\ lead = -1 /\ k = 0
    /\ cv = NoCv /\ lab = NoLab /\ sg = NoSg /\ rd = NoRd /\ md = NoMd
    /\ \E given \in BOOLEAN, addr \in Addrs, uid \in Uids :
            hs = [NoHs EXCEPT !.pc = "start", !.given = given, !.addr = addr, !.uid = uid]

NextNew ==
    \/ \E ok \in BOOLEAN : NewDial(ok)
    \/ \E ok \in BOOLEAN : SendNull(ok)
    \/ \E ok \in BOOLEAN : SendAuth(ok)
    \/ \E reply \in AuthReplies, ok \in BOOLEAN : ReadAuth(reply, ok)
    \/ \E ok \in BOOLEAN : SendBegin(ok)
    \/ \E ok \in BOOLEAN : SendHello(ok)
    \/ \E ok \in BOOLEAN, all \in BOOLEAN : ReadHello(ok, all)

SpecNew == InitNew /\ [][NextNew]_vars

\* C26: the messages sent on one connection carry pairwise different
\* serials, the Hello of New included: the request a call has written does
\* not carry the serial of the Hello, and the requests that wait for their
\* replies differ in their serials.
C26_SerialsDistinct ==
    /\ sent.op # "" => WireUint32(sent.buf, 8) # WireUint32(helloMsg, 8)
    /\ \A i, j \in 1..Len(pending) : i < j => pending[i].serial # pending[j].serial

\* the steps of the handshake in their order
Handshake == << "null", "auth", "readauth", "begin", "hello", "readhello" >>

Done(ev) == {i \in 1..Len(hs.log) : hs.log[i].ev = ev}

\* C12: once the reply to the AUTH EXTERNAL line has been read, New goes on
\* to BEGIN exactly when the read returned no error and the bytes read begin
\* with "OK"; after any other reply, or a read error, New has failed, and
\* neither BEGIN nor the Hello message is written.  A client is returned
\* only after a reply that begins with "OK".
C12_AuthOK ==
    Done("readauth") # {} =>
        LET accepted == /\ hs.log[3].ok
                        /\ Len(hs.reply) >= 2
                        /\ hs.reply[1] = 79 /\ hs.reply[2] = 75
        IN  /\ accepted <=> hs.pc \in {"begin", "hello", "readhello", "done"}
                                \/ Done("begin") # {}
            /\ ~accepted => /\ hs.pc = "failed"
                            /\ Done("begin") = {} /\ Done("hello") = {}
            /\ hs.pc = "done" => accepted

\* New has failed on the reply "O", with nothing written after the AUTH line
C12_Witness ==
    /\ hs.pc = "failed"
    /\ Len(hs.log) = 3
    /\ hs.log[3].ok
    /\ hs.reply = << 79 >>

-----------------------------------------------------------------------------
(* The string converter *)

AllButCv == <<hvars, cvars, svars, hs, lab, sg, rd, md>>

\* make([]byte, 0, cap): the memory of a buffer and its length
MakeBuf(cap) == [mem |-> Zeros(cap), len |-> 0]

\* newStringConverter.  bufs holds every buffer made, as strings made with
\* unsafe.String keep pointing into them; c.buf is bufs[cur].
newStringConverter(cap) ==
    [bufs |-> << MakeBuf(cap) >>, cur |-> 1, cap |-> cap, offset |-> 0, out |-> << >>]

\* a string: bytes of its own, or n bytes at off in the buffer buf
OwnString(b) == [own |-> TRUE, b |-> b, buf |-> 0, off |-> 0, n |-> Len(b)]
StringAt(buf, off, n) == [own |-> FALSE, b |-> << >>, buf |-> buf, off |-> off, n |-> n]

\* the bytes of a string as they are now
Bytes(c, str) ==
    IF str.own THEN str.b
    ELSE SubSeq(c.bufs[str.buf].mem, str.off + 1, str.off + str.n)

\* a full buffer emptied and used again, c.buf = c.buf[:0]
convRewind(c) == [c EXCEPT !.bufs[c.cur].len = 0, !.offset = 0]

\* c.buf = make([]byte, 0, cap(c.buf)); c.offset = 0
convRenew(c) ==
    [c EXCEPT !.bufs = Append(@, MakeBuf(c.cap)), !.cur = Len(c.bufs) + 1, !.offset = 0]

\* c.buf = append(c.buf, b...), within the capacity
convAppend(c, b) ==
    [c EXCEPT !.bufs[c.cur] =
        [mem |-> [i \in 1..c.cap |->
                    IF i > @.len /\ i <= @.len + Len(b) THEN b[i - @.len] ELSE @.mem[i]],
         len |-> @.len + Len(b)]]

\* unsafe.String(&c.buf[c.offset], n); c.offset += n
convTake(c, n) == [c |-> [c EXCEPT !.offset = @ + n], s |-> StringAt(c.cur, c.offset, n)]

\* stringConverter.String: [c, s]
convString(c, b) ==
    IF Len(b) = 0 THEN [c |-> c, s |-> OwnString(<< >>)]
    ELSE IF Len(b) > c.cap THEN [c |-> c, s |-> OwnString(b)]
    ELSE IF c.bufs[c.cur].len + Len(b) > c.cap
    THEN convTake(convAppend(convRenew(c), b), Len(b))
    ELSE convTake(convAppend(c, b), Len(b))

\* the slice handed to the j-th call: n bytes that name the call
SliceOf(j, n) == [i \in 1..n |-> 96 + j]

InitConv ==
    /\ HarnessOff
    /\ NewClient /\ msgSerial = U32(0) /\ check = FALSE /\ conn = << >> /\ msgs = << >>
    /\ lead = -1 /\ k = 0
    /\ hs = NoHs /\ lab = NoLab /\ sg = NoSg /\ rd = NoRd /\ md = NoMd
    /\ \E cap \in 0..MaxConvCap : cv = newStringConverter(cap)

\* one call of String; out keeps the string returned and the slice passed
ConvCall(n) ==
    /\ Len(cv.out) < MaxConvCalls
    /\ LET b == SliceOf(Len(cv.out) + 1, n)
           r == convString([cv EXCEPT !.out = << >>], b)
       IN  cv' = [r.c EXCEPT !.out = Append(cv.out, [s |-> r.s, b |-> b])]
    /\ UNCHANGED AllButCv

NextConv == \E n \in 0..(MaxConvCap + 1) : ConvCall(n)

SpecConv == InitConv /\ [][NextConv]_vars

\* C13: every string a converter has returned has the length and the bytes
\* of the slice passed to the call that returned it, whatever calls have
\* followed.
C13_StringsKept ==
    \A i \in 1..Len(cv.out) :
        /\ cv.out[i].s.n = Len(cv.out[i].b)
        /\ Bytes(cv, cv.out[i].s) = cv.out[i].b

\* a string lies in a buffer that has been replaced since
C13_Witness ==
    \E i \in 1..Len(cv.out) :
        /\ ~cv.out[i].s.own
        /\ cv.out[i].s.n > 0
        /\ cv.out[i].s.buf < cv.cur
        /\ cv.bufs[cv.cur].len > 0

-----------------------------------------------------------------------------
(* escapeBusLabel on its own *)

AllButLab == <<hvars, cvars, svars, hs, cv, sg, rd, md>>

\* the bytes unit names are drawn from: a Z 5 _ . @ and 0xff
LabelBytes == {97, 90, 53, 95, 46, 64, 255}

\* "dbus", ".service", "foo", "bar", "555"
sDbus == << 100, 98, 117, 115 >>
sDotService == << 46, 115, 101, 114, 118, 105, 99, 101 >>
sFoo == << 102, 111, 111 >>
sBar == << 98, 97, 114 >>
s555 == << 53, 53, 53 >>
\* "_2eservice"
sEscService == << 95, 50, 101, 115, 101, 114, 118, 105, 99, 101 >>

\* the table of TestEscapeBusLabel, but for the name of 36 bytes
EscapeTable ==
    { [in |-> << >>, out |-> << 95 >>],
      [in |-> sDbus, out |-> sDbus],
      [in |-> sDbus \o sDotService, out |-> sDbus \o sEscService],
      [in |-> sFoo \o << 64 >> \o sBar \o sDotService,
       out |-> sFoo \o << 95, 52, 48 >> \o sBar \o sEscService],
      [in |-> sFoo \o << 95 >> \o sBar \o << 64 >> \o sBar \o sDotService,
       out |-> sFoo \o << 95, 53, 102 >> \o sBar \o << 95, 52, 48 >> \o sBar \o sEscService],
      [in |-> s555, out |-> << 95, 51, 53, 53, 53 >>] }

Labels ==
    UNION {[1..n -> LabelBytes] : n \in 0..MaxLabelLen} \cup {t.in : t \in EscapeTable}

InitEscape ==
    /\ HarnessOff
    /\ NewClient /\ msgSerial = U32(0) /\ check = FALSE /\ conn = << >> /\ msgs = << >>
    /\ lead = -1 /\ k = 0
    /\ hs = NoHs /\ cv = NoCv /\ sg = NoSg /\ rd = NoRd /\ md = NoMd
    /\ \E in \in Labels : lab = [in |-> in, out |-> << >>, done |-> FALSE]

Escape ==
    /\ ~lab.done
    /\ lab' = [lab EXCEPT !.out = escapeBusLabel(lab.in), !.done = TRUE]
    /\ UNCHANGED AllButLab

SpecEscape == InitEscape /\ [][Escape]_vars

\* the byte b is an ASCII letter
IsLetter(b) == b \in 65..90 \/ b \in 97..122

\* the byte at i of a name is copied: a letter, or a digit that is not first
Copied(in, i) == IsLetter(in[i]) \/ (in[i] \in 48..57 /\ i > 1)

\* where the escape of the byte at i starts in the output, less one
RECURSIVE EscStart(_, _)
EscStart(in, i) ==
    IF i = 1 THEN 0 ELSE EscStart(in, i - 1) + (IF Copied(in, i - 1) THEN 1 ELSE 3)

HexChars == << 48, 49, 50, 51, 52, 53, 54, 55, 56, 57, 97, 98, 99, 100, 101, 102 >>

\* C14: escapeBusLabel gives "_" for the empty name; otherwise the output is
\* the escapes of the bytes of the name in their order, a letter and a digit
\* that is not first being copied, and every other byte, an underscore and a
\* leading digit included, becoming "_" and its two lower-case hex digits.
\* The rows of the table of TestEscapeBusLabel come out as the table says.
C14_EscapeBusLabel ==
    lab.done =>
        /\ lab.in = << >> => lab.out = << 95 >>
        /\ lab.in # << >> =>
            /\ Len(lab.out) = EscStart(lab.in, Len(lab.in) + 1)
            /\ \A i \in 1..Len(lab.in) :
                LET at == EscStart(lab.in, i)
                IN  IF Copied(lab.in, i) THEN lab.out[at + 1] = lab.in[i]
                    ELSE /\ lab.out[at + 1] = 95
                         /\ lab.out[at + 2] = HexChars[(lab.in[i] \div 16) + 1]
                         /\ lab.out[at + 3] = HexChars[(lab.in[i] % 16) + 1]
        /\ \A t \in EscapeTable : lab.in = t.in => lab.out = t.out

\* "foo_bar@bar.service" has been escaped
C14_Witness ==
    /\ lab.done
    /\ lab.in = sFoo \o << 95 >> \o sBar \o << 64 >> \o sBar \o sDotService
    /\ lab.out = sFoo \o << 95, 53, 102 >> \o sBar \o << 95, 52, 48 >> \o sBar \o sEscService

-----------------------------------------------------------------------------
(* decoder.Signature on signatures of every length *)

AllButSg == <<hvars, cvars, svars, hs, cv, lab, rd, md>>

\* the longest signature a length byte can state
maxSignatureLen == 255

\* the content of a signature of n bytes
SigContent(n) == [i \in 1..n |-> 97 + (i % 26)]

\* a signature on the wire: length byte, content, NUL
SigWire(n) == << n >> \o SigContent(n) \o << 0 >>

\* how many bytes of the message the decoder has read before the signature:
\* none, a prologue, or a prologue and a fields array read as a whole
Earlier == {0, messagePrologueSize, messagePrologueSize + 284}

\* what follows the signature in the source
SigTails == {<< >>, << 1, 0, 0, 0 >>}

InitSig ==
    /\ \E n \in 0..maxSignatureLen, e \in Earlier, t \in SigTails :
          sg = [phase |-> "run", d |-> newDecoder(Zeros(e) \o SigWire(n) \o t, FALSE),
                n |-> n, e |-> e, pos0 |-> 0, offset0 |-> 0]
    /\ HarnessOff
    /\ NewClient /\ msgSerial = U32(0) /\ check = FALSE /\ conn = << >> /\ msgs = << >>
    /\ lead = -1 /\ k = 0
    /\ hs = NoHs /\ cv = NoCv /\ lab = NoLab /\ rd = NoRd /\ md = NoMd

\* the bytes before the signature are read as decodeHeader reads them with
\* skipFields: the prologue, then the fields array
ReadEarlier ==
    /\ sg.phase = "run"
    /\ sg.d.pos < sg.e
    /\ \/ /\ sg.d.pos = 0
          /\ sg' = [sg EXCEPT !.d = ReadN(@, messagePrologueSize)]
       \/ /\ sg.d.pos = messagePrologueSize
          /\ sg' = [sg EXCEPT !.d = ReadN(@, sg.e - messagePrologueSize)]
    /\ UNCHANGED AllButSg

SigDecode ==
    /\ sg.phase = "run"
    /\ sg.d.pos = sg.e
    /\ sg' = [sg EXCEPT !.d = Signature(@), !.phase = "done",
                        !.pos0 = sg.d.pos, !.offset0 = sg.d.offset]
    /\ UNCHANGED AllButSg

NextSig == ReadEarlier \/ SigDecode

SpecSig == InitSig /\ [][NextSig]_vars

\* C19: for a signature of every content length 0..255, decoder.Signature
\* returns without error the content bytes, having consumed the length byte,
\* the content and the NUL and advanced the offset by as much, at length 255
\* as at any other.
C19_SignatureConsumes ==
    sg.phase = "done" =>
        /\ sg.d.err = ""
        /\ sg.d.val = SigContent(sg.n)
        /\ sg.d.pos - sg.pos0 = 1 + sg.n + 1
        /\ sg.d.offset - sg.offset0 = 1 + sg.n + 1

-----------------------------------------------------------------------------
(* readN on sources that deliver their bytes in pieces *)

AllButRd == <<hvars, cvars, svars, hs, cv, lab, sg, md>>

\* the longest source and the largest request
MaxSrcLen == 4

\* the bytes of a source of n bytes
SrcBytes(n) == [i \in 1..n |-> 10 + i]

InitRead ==
    /\ \E len \in 0..MaxSrcLen, n \in 0..MaxSrcLen, sock \in BOOLEAN,
          cuts \in SUBSET (1..(MaxSrcLen - 1)) :
          /\ \A c \in cuts : c < len
          /\ rd = [phase |-> "init", n |-> n,
                   d |-> [newDecoder(SrcBytes(len), sock) EXCEPT !.cuts = cuts]]
    /\ HarnessOff
    /\ NewClient /\ msgSerial = U32(0) /\ check = FALSE /\ conn = << >> /\ msgs = << >>
    /\ lead = -1 /\ k = 0
    /\ hs = NoHs /\ cv = NoCv /\ lab = NoLab /\ sg = NoSg /\ md = NoMd

\* readN(src, buf, n) returns
ReadExact ==
    /\ rd.phase = "init"
    /\ readN(rd.d, rd.n).err # "block"
    /\ rd' = [rd EXCEPT !.d = readN(@, rd.n), !.phase = "done"]
    /\ UNCHANGED AllButRd

\* readN(src, buf, n) waits in Read for bytes that do not come
ReadWaits ==
    /\ rd.phase = "init"
    /\ readN(rd.d, rd.n).err = "block"
    /\ rd' = [rd EXCEPT !.phase = "blocked"]
    /\ UNCHANGED AllButRd

NextRead == ReadExact \/ ReadWaits

SpecRead == InitRead /\ [][NextRead]_vars

\* C21: readN returns without error only when it has obtained the n bytes
\* asked for from the source; with fewer, after its second Read, it returns
\* an error.
C21_ExactRead ==
    (rd.phase = "done" /\ rd.d.err = "")
        => (rd.d.pos = rd.n /\ rd.d.val = SrcBytes(rd.n))

-----------------------------------------------------------------------------
(* The message decoder on a stream of bytes *)

AllButMd == <<hvars, cvars, svars, hs, cv, lab, sg, rd>>

\* how many bytes the end of a body is short of the end of its array
Drops == {0, 1, 5}

\* a reply to ListUnits whose body ends drop bytes before its array does
ShortListUnitsReply(serial, replySerial, us, drop) ==
    BusMessage(typeMethodReply, serial, ReplyFields(replySerial, sUnitsSignature),
               SubSeq(UnitsBody(us), 1, Len(UnitsBody(us)) - drop))

\* a reply to Get(MainPID) whose body goes on for more bytes after the PID
LongMainPIDReply(serial, replySerial, pid, more) ==
    BusMessage(typeMethodReply, serial, ReplyFields(replySerial, << 118 >>),
               PidBody(pid) \o Zeros(more))

\* the messages a stream starts with
Images ==
    {[NoImg EXCEPT !.b = ShortListUnitsReply(U32(9), U32(1), us, drop), !.kind = "units",
                   !.us = us, !.drop = drop] : us \in UnitLists, drop \in Drops}
    \cup {[NoImg EXCEPT !.b = LongMainPIDReply(U32(9), U32(1), pid, more), !.kind = "pid",
                        !.pid = pid, !.drop = -more] : pid \in Pids, more \in {0, 8}}
    \cup {[NoImg EXCEPT !.b = ErrorReply(U32(9), U32(1)), !.kind = "error"],
          [NoImg EXCEPT !.b = NameAcquired(U32(2)), !.kind = "signal"]}

\* what follows the message in the stream: nothing, or the next message
Rests == {<< >>, MainPIDReply(U32(10), U32(2), U32(7))}

InitMsg ==
    /\ \E img \in Images, rest \in Rests, op \in {"ListUnits", "MainPID"}, skip \in BOOLEAN :
          md = [NoMd EXCEPT !.at = "start", !.op = op, !.skip = skip,
                            !.img = [img EXCEPT !.rest = rest],
                            !.d = newDecoder(img.b \o rest, FALSE)]
    /\ HarnessOff
    /\ NewClient /\ msgSerial = U32(0) /\ check = FALSE /\ conn = << >> /\ msgs = << >>
    /\ lead = -1 /\ k = 0
    /\ hs = NoHs /\ cv = NoCv /\ lab = NoLab /\ sg = NoSg /\ rd = NoRd

\* DecodeListUnits up to its loop
MsgListUnitsHead ==
    /\ md.at = "start"
    /\ md.op = "ListUnits"
    /\ md' = Bind(DecodeListUnitsHead(md.d, md.h, md.skip), LAMBDA r :
                [md EXCEPT !.d = r.d, !.h = r.h, !.err = r.err,
                           !.at = IF r.err # "" THEN "done" ELSE "loop"])
    /\ UNCHANGED AllButMd

\* the body of the loop: f(&d.unit)
MsgCallback ==
    /\ md.at = "loop"
    /\ md' = [md EXCEPT !.at = "unit", !.delivered = Append(@, md.unit)]
    /\ UNCHANGED AllButMd

\* the post statement of the loop, its condition, and what follows the
\* loop: io.EOF is the end of the body and no error
MsgListUnitsNext ==
    /\ md.at = "unit"
    /\ md' = Bind(decodeUnit(md.d, md.unit), LAMBDA r :
                [md EXCEPT !.d = r.d, !.unit = r.unit,
                           !.at = IF r.err = "" THEN "loop" ELSE "done",
                           !.err = IF r.err = "EOF" THEN "" ELSE r.err])
    /\ UNCHANGED AllButMd

\* DecodeMainPID
MsgMainPID ==
    /\ md.at = "start"
    /\ md.op = "MainPID"
    /\ md' = Bind(DecodeMainPID(md.d, md.h, md.skip), LAMBDA r :
                [md EXCEPT !.d = r.d, !.h = r.h, !.err = r.err, !.pid = r.pid,
                           !.at = "done"])
    /\ UNCHANGED AllButMd

NextMsg == MsgListUnitsHead \/ MsgCallback \/ MsgListUnitsNext \/ MsgMainPID

SpecMsg == InitMsg /\ [][NextMsg]_vars

\* DecodeListUnits has returned for a reply to ListUnits
ListDecoded == md.at = "done" /\ md.op = "ListUnits" /\ md.img.kind = "units"

\* C22: DecodeListUnits returns an error when the body of the reply ends
\* inside a unit record, after the record was started and before its ten
\* fields were read; it returns without error only when the body ends
\* between records.
C22_TruncatedRecordFails ==
    (ListDecoded /\ md.img.us # << >> /\ md.img.drop > 0) => md.err # ""

\* C25: when DecodeListUnits or DecodeMainPID returns without error, it has
\* consumed the whole message, its header up to the 8-byte boundary and the
\* body-len bytes of its body, so that the stream stands at the first byte
\* of the next message.
C25_WholeMessageConsumed ==
    (md.at = "done" /\ md.err = "")
        => /\ md.d.pos = HeaderLen(md.h) + Nat32(md.h.BodyLen)
           /\ md.d.pos = Len(md.img.b)

\* the alignments of the values of a message body
Alignments == {1, 2, 4, 8}

\* C27: wherever DecodeListUnits stands in the body of a message, before the
\* length of the array is followed by a record and before each further
\* record, the padding that the decoder computes from its offset, which
\* started again at 0 with the body, is for every alignment the padding that
\* the position in the message, counted from its first byte, asks for: the
\* two differ by the length of the header, a multiple of 8.
C27_BodyPaddingFromMessageStart ==
    (md.op = "ListUnits" /\ md.at \in {"loop", "unit"})
        => /\ \A a \in Alignments :
                nextOffset(md.d.offset, a).padding = nextOffset(md.d.pos, a).padding
           /\ (md.d.pos - md.d.offset) % 8 = 0

\* a record of a reply whose header fields end off the 8-byte boundary has
\* been decoded as it was sent, padding before its UINT32 included
C27_Witness ==
    /\ md.op = "ListUnits"
    /\ md.at = "loop"
    /\ md.img.kind = "units"
    /\ (messagePrologueSize + Nat32(md.h.FieldsLen)) % 8 # 0
    /\ md.img.us # << >>
    /\ md.unit = md.img.us[1]
    /\ md.d.offset > u32size
    /\ md.d.pos = md.d.offset + HeaderLen(md.h)

====
